---- MODULE Spec2Model ----
(***************************************************************************)
(* A model of lotter's lot engine: exact rational amounts, lots, lot       *)
(* queues (FIFO / LIFO), the trade / move resolver of the "lot" operation  *)
(* and its short-term / long-term gain apportionment.                      *)
(***************************************************************************)
EXTENDS Integers, Sequences, FiniteSets, TLC

VARIABLES
    orderFlag,      \* *orderFlag: consumption policy of every queue ("fifo" | "lifo")
    weight,         \* var weight uint: counter for each lot created
    queue,          \* one LotQueue.lot slice driven directly by Buy / Sell
    qBought,        \* history: sum of the inventories of the lots bought into queue
    qSold,          \* history: sum of the 'actual' amounts returned by queue's Sell
    qLast,          \* history: the last call on queue, its pre-state and its results
    qCreated,       \* history: the inventory each lot of queue was created with, by weight
    qReleased,      \* history: the cost of each lot of queue and the basis its Sells returned
    pruneFlag,      \* *pruneFlag: name depth of account-specific lots
    lotQueue,       \* lotQueue: the lots of every (asset, qualifier), the ledger state
    txCount,        \* transactions read from the input so far
    txDate,         \* txLines.Date of the last transaction read
    tx,             \* what lotMain made of the last transaction read
    halted,         \* the run has ended (os.Exit or panic)
    written,        \* the blocks written to the output so far
    decimalPlaces,  \* decimalPlaces: the decimals learned for each asset (0: no entry)
    observed,       \* history: the most decimals of any amount parsed, for each asset
    parsed,         \* history: the last call of parseAmount, its text and its results
    scanInput,      \* the lines of the input the scanner has not read yet
    scanLines,      \* TxScanner.lines.Line: the block of the last Scan
    scanPayee,      \* what Payee() made of the block
    scanPhase,      \* the next call of the loop: "scan", "payee", or "done" / "panic"
    priceHistory,   \* baseMain's priceHistory: the price in base currency by day and asset
    baseStatus,     \* command's exit status
    baseOut,        \* the blocks the base operation has written
    baseCount,      \* the blocks the base operation has read
    baseLast,       \* history: the last block read and what the passes made of it
    basePhase       \* "run", and "exited" or "panic" once the process has ended

vars == <<orderFlag, weight, queue, qBought, qSold, qLast, qCreated, qReleased,
          pruneFlag, lotQueue, txCount, txDate, tx, halted, written,
          decimalPlaces, observed, parsed,
          scanInput, scanLines, scanPayee, scanPhase,
          priceHistory, baseStatus, baseOut, baseCount, baseLast, basePhase>>
amountVars == <<decimalPlaces, observed, parsed>>
scanVars == <<scanInput, scanLines, scanPayee, scanPhase>>
baseVars == <<priceHistory, baseStatus, baseOut, baseCount, baseLast, basePhase>>
queueVars == <<queue, qBought, qSold, qLast, qCreated, qReleased>>
ledgerVars == <<pruneFlag, lotQueue, txCount, txDate, tx, halted, written>>

(***************************************************************************)
(* Bounds of the model.                                                    *)
(***************************************************************************)
MaxQty == 2         \* largest inventory of a lot bought directly / amount sold
MaxLots == 2        \* most lots created in the queue specification

\* dates are encoded year * 10000 + month * 100 + day: the encoding is
\* order-isomorphic to time.Time's Before / After / Equal on calendar dates
QDates == {20180101, 20200101}
\* cost bases of the lots bought directly (0: a lot with no basis, as of a fork)
QBases == {0, 1}

NULL == "nil"
FIFO == "fifo"
LIFO == "lifo"
Base == "USD"
AssetA == "AAA"

(***************************************************************************)
(* math/big.Rat: exact rationals, kept normalised (d > 0, gcd(n, d) = 1).  *)
(***************************************************************************)
Abs(x) == IF x < 0 THEN -x ELSE x

RECURSIVE GCD(_, _)
GCD(a, b) == IF b = 0 THEN a ELSE GCD(b, a % b)

Rat(n, d) ==
    LET g == GCD(Abs(n), Abs(d))
        s == IF d < 0 THEN -1 ELSE 1
    IN  [n |-> s * (n \div g), d |-> s * (d \div g)]

RatInt(k) == [n |-> k, d |-> 1]
RatZero == RatInt(0)
RatSign(x) == IF x.n > 0 THEN 1 ELSE IF x.n < 0 THEN -1 ELSE 0
RatNeg(x) == [n |-> -x.n, d |-> x.d]
RatAbs(x) == [n |-> Abs(x.n), d |-> x.d]

RatAdd(x, y) ==
    LET g == GCD(x.d, y.d)
    IN  Rat(x.n * (y.d \div g) + y.n * (x.d \div g), (x.d \div g) * y.d)

RatSub(x, y) == RatAdd(x, RatNeg(y))

RatMul(x, y) ==
    LET g1 == GCD(Abs(x.n), y.d)
        g2 == GCD(Abs(y.n), x.d)
    IN  Rat((x.n \div g1) * (y.n \div g2), (x.d \div g2) * (y.d \div g1))

RatQuo(x, y) == RatMul(x, Rat(y.d, y.n))

RatLess(x, y) == RatSign(RatSub(x, y)) < 0

(***************************************************************************)
(* Amount: an asset code and a rational value.                             *)
(***************************************************************************)
NewAmount(asset, r) == [asset |-> asset, rat |-> r]
ZeroClone(a) == NewAmount(a.asset, RatZero)
NegClone(a) == NewAmount(a.asset, RatNeg(a.rat))
AbsClone(a) == NewAmount(a.asset, RatAbs(a.rat))
Clone(a) == NewAmount(a.asset, a.rat)
Compatible(a, x) == a.asset = x.asset
Sign(a) == RatSign(a.rat)

(***************************************************************************)
(* Lot.  inventory and startInventory are Amounts holding the same         *)
(* *big.Rat after NewLot, so a write through inventory.Set is a write to   *)
(* startInventory as well; ZeroClone gives inventory a Rat of its own.     *)
(***************************************************************************)
NewLotOk(inventory, basis) == Sign(inventory) >= 1 /\ Sign(basis) >= 0

NewLot(name, date, inventory, basis, w) ==
    [name |-> name, date |-> date, weight |-> w + 1,
     inventory |-> inventory, startInventory |-> inventory,
     startCost |-> basis, price |-> RatQuo(basis.rat, inventory.rat)]

LotSellOk(l, delta) == Sign(delta) < 0 /\ Compatible(delta, l.inventory)

\* a Lot.Sell that does not limit 'actual' to the inventory the lot holds
LotSellActualUncapped(l, delta) == NegClone(delta)

LotSellActual(l, delta) ==
    LET tmp == RatAdd(l.inventory.rat, delta.rat)
    IN  IF RatSign(tmp) = -1 THEN l.inventory ELSE NegClone(delta)

\* a Lot.Sell that adds what is sold to a lot that holds more than enough
LotSellInventoryGrows(l, delta) ==
    LET tmp == RatSub(l.inventory.rat, delta.rat)
    IN  IF RatSign(RatAdd(l.inventory.rat, delta.rat)) = 1
        THEN [l EXCEPT !.inventory.rat = tmp, !.startInventory.rat = tmp]
        ELSE [l EXCEPT !.inventory = ZeroClone(l.inventory)]

LotSellInventory(l, delta) ==
    LET tmp == RatAdd(l.inventory.rat, delta.rat)
    IN  IF RatSign(tmp) = 1
        THEN [l EXCEPT !.inventory.rat = tmp, !.startInventory.rat = tmp]
        ELSE [l EXCEPT !.inventory = ZeroClone(l.inventory)]

\* a Lot.Sell whose basis is that of the amount asked for
LotSellBasisOfDelta(l, delta) ==
    [lot |-> LotSellInventory(l, delta), actual |-> LotSellActual(l, delta),
     basis |-> NewAmount(l.startCost.asset, RatMul(l.price, delta.rat))]

LotSell(l, delta) ==
    LET actual == LotSellActual(l, delta)
        basis == NewAmount(l.startCost.asset, RatNeg(RatMul(l.price, actual.rat)))
    IN  [lot |-> LotSellInventory(l, delta), actual |-> actual, basis |-> basis]

(***************************************************************************)
(* LotQueue: lots are sold from the tail of the slice.                     *)
(***************************************************************************)
\* a Less whose two policies are exchanged
LessSwapped(order, a, b) ==
    IF order = LIFO
    THEN a.date > b.date \/ (a.date = b.date /\ a.weight > b.weight)
    ELSE a.date < b.date \/ (a.date = b.date /\ a.weight < b.weight)

\* a Less that compares dates only
LessDateOnly(order, a, b) ==
    IF order = FIFO THEN a.date > b.date ELSE a.date < b.date

Less(order, a, b) ==
    IF order = FIFO
    THEN a.date > b.date \/ (a.date = b.date /\ a.weight > b.weight)
    ELSE a.date < b.date \/ (a.date = b.date /\ a.weight < b.weight)

RECURSIVE Insert(_, _, _)
Insert(order, sorted, l) ==
    IF sorted = <<>> THEN <<l>>
    ELSE IF Less(order, l, Head(sorted)) THEN <<l>> \o sorted
    ELSE <<Head(sorted)>> \o Insert(order, Tail(sorted), l)

RECURSIVE Sort(_, _)
Sort(order, lots) ==
    IF lots = <<>> THEN <<>>
    ELSE Insert(order, Sort(order, SubSeq(lots, 1, Len(lots) - 1)), lots[Len(lots)])

sanity(lots, delta) ==
    /\ Sign(delta) # 0
    /\ lots = <<>> => Sign(delta) > 0
    /\ lots # <<>> => delta.asset = lots[1].inventory.asset

\* a Buy that appends without sorting
LotQueueBuyUnsorted(order, lots, lot) == Append(lots, lot)

LotQueueBuy(order, lots, lot) == Sort(order, Append(lots, lot))

RECURSIVE SellLoop(_, _, _)
\* a step of Sell that puts the last lot back whatever remains of it
SellStepKeepsLot(popped, remaining, s, acc) ==
    LET rest == NewAmount(remaining.asset, RatAdd(remaining.rat, s.actual.rat))
    IN  SellLoop(IF Sign(rest) > -1 THEN Append(popped, s.lot) ELSE popped,
                 rest,
                 [acc EXCEPT !.lot = Append(@, s.lot),
                             !.inventory = Append(@, s.actual),
                             !.basis = Append(@, s.basis)])

SellStep(popped, remaining, s, acc) ==
    LET rest == NewAmount(remaining.asset, RatAdd(remaining.rat, s.actual.rat))
    IN  SellLoop(IF Sign(rest) > -1 /\ Sign(s.lot.inventory) > 0
                 THEN Append(popped, s.lot) ELSE popped,
                 rest,
                 [acc EXCEPT !.lot = Append(@, s.lot),
                             !.inventory = Append(@, s.actual),
                             !.basis = Append(@, s.basis)])

\* a Sell that reports what it consumed but leaves the queue as it was when
\* the inventory runs out
SellLoopRollback(lots, remaining, acc) ==
    IF Sign(remaining) = 0 THEN [acc EXCEPT !.queue = lots]
    ELSE IF lots = <<>> THEN [acc EXCEPT !.err = TRUE]
    ELSE SellStep(SubSeq(lots, 1, Len(lots) - 1), remaining,
                  LotSell(lots[Len(lots)], remaining), acc)

\* a Sell that ends without an error when the queue runs empty
SellLoopSilent(lots, remaining, acc) ==
    IF Sign(remaining) = 0 \/ lots = <<>> THEN [acc EXCEPT !.queue = lots]
    ELSE SellStep(SubSeq(lots, 1, Len(lots) - 1), remaining,
                  LotSell(lots[Len(lots)], remaining), acc)

SellLoop(lots, remaining, acc) ==
    IF Sign(remaining) = 0 THEN [acc EXCEPT !.queue = lots]
    ELSE IF lots = <<>> THEN [acc EXCEPT !.queue = lots, !.err = TRUE]
    ELSE SellStep(SubSeq(lots, 1, Len(lots) - 1), remaining,
                  LotSell(lots[Len(lots)], remaining), acc)

LotQueueSell(lots, delta) ==
    SellLoop(lots, Clone(delta),
             [queue |-> lots, lot |-> <<>>, inventory |-> <<>>, basis |-> <<>>,
              err |-> FALSE])

(***************************************************************************)
(* Sums over sequences of amounts and over the lots of a queue.            *)
(***************************************************************************)
RECURSIVE SumRat(_)
SumRat(s) == IF s = <<>> THEN RatZero ELSE RatAdd(Head(s), SumRat(Tail(s)))

Inventories(lots) == [i \in 1..Len(lots) |-> lots[i].inventory.rat]
Rats(amounts) == [i \in 1..Len(amounts) |-> amounts[i].rat]

(***************************************************************************)
(* Display rounding.  Amount.FloatString renders the value with            *)
(* precision(asset) decimals, halves rounded away from zero; lotMain reads *)
(* the rendered digits back with SetString.  FloatString is the value of   *)
(* that rendering.  A value whose denominator divides 10^precision is      *)
(* rendered exactly.                                                       *)
(***************************************************************************)
DefaultPrecision == 6
precision(asset) ==
    IF decimalPlaces[asset] # 0 THEN decimalPlaces[asset] ELSE DefaultPrecision

RECURSIVE Pow10(_)
Pow10(k) == IF k = 0 THEN 1 ELSE 10 * Pow10(k - 1)

\* long division: k more decimals of r / d, after the digits f
RECURSIVE RoundDigits(_, _, _, _)
RoundDigits(r, d, k, f) ==
    IF k = 0 THEN <<f, r>>
    ELSE RoundDigits((r * 10) % d, d, k - 1, f * 10 + ((r * 10) \div d))

RoundedMagnitude(ip, fr, d, scale) ==
    RatAdd(RatInt(ip), Rat(IF 2 * fr[2] >= d THEN fr[1] + 1 ELSE fr[1], scale))

RatFloat(x, prec) ==
    IF Pow10(prec) % x.d = 0 THEN x
    ELSE LET mag == RoundedMagnitude(Abs(x.n) \div x.d,
                                     RoundDigits(Abs(x.n) % x.d, x.d, prec, 0),
                                     x.d, Pow10(prec))
         IN  IF x.n < 0 THEN RatNeg(mag) ELSE mag

FloatString(a) == RatFloat(a.rat, precision(a.asset))

\* the text of an amount: its rendered value and its asset code
String(a) == <<FloatString(a), a.asset>>

\* i.e. "100BTC@123.45USD"
lotShortName(inventory, price) == <<String(inventory), "@", String(price)>>

(***************************************************************************)
(* Split: one posting of a transaction.  delta, price and cost are         *)
(* NoAmount when the posting does not give them.                           *)
(***************************************************************************)
\* a split's delta, price or cost that is not given (a nil pointer)
NoAmount == [asset |-> NULL, rat |-> RatZero]

Priced(s) == s.price # NoAmount \/ s.cost # NoAmount

SplitPrice(s) ==
    IF s.price # NoAmount THEN s.price
    ELSE NewAmount(s.cost.asset, RatQuo(s.cost.rat, s.delta.rat))

\* a cost that is the price times the size of the delta, whatever its sign
SplitCostUnsigned(s) ==
    IF s.cost # NoAmount THEN s.cost
    ELSE NewAmount(s.price.asset, RatMul(s.price.rat, RatAbs(s.delta.rat)))

SplitCost(s) ==
    IF s.cost # NoAmount THEN s.cost
    ELSE NewAmount(s.price.asset, RatMul(s.price.rat, s.delta.rat))

TallyOfCost(cost, delta) == IF Sign(cost) # Sign(delta) THEN NegClone(cost) ELSE cost

Tally(s) == IF Priced(s) THEN TallyOfCost(SplitCost(s), s.delta) ELSE s.delta

Inventory(s) == NegClone(s.delta)

getAssetQualifier(account, prune) ==
    IF prune > -1 /\ Len(account) > prune THEN SubSeq(account, 1, prune) ELSE account

(***************************************************************************)
(* produceSplits: the splits of a transaction filed under the asset of     *)
(* their tally and their qualifier, in the order of the lines.  A split    *)
(* without an amount takes the negated tally of one asset whose tally is   *)
(* not zero (the first one the map iteration meets: pick) and is filed     *)
(* last.                                                                   *)
(***************************************************************************)
HasDelta(s) == s.delta # NoAmount

RECURSIVE TallyOf(_, _)
TallyOf(lines, asset) ==
    IF lines = <<>> THEN RatZero
    ELSE IF HasDelta(Head(lines)) /\ Tally(Head(lines)).asset = asset
         THEN RatAdd(Tally(Head(lines)).rat, TallyOf(Tail(lines), asset))
         ELSE TallyOf(Tail(lines), asset)

TallyAssets(lines) ==
    {Tally(lines[i]).asset : i \in {j \in 1..Len(lines) : HasDelta(lines[j])}}

NonZeroTallies(lines) == {a \in TallyAssets(lines) : RatSign(TallyOf(lines, a)) # 0}

\* the last line without an amount, or 0
NoDelta(lines) ==
    IF \E i \in 1..Len(lines) : ~HasDelta(lines[i])
    THEN CHOOSE i \in 1..Len(lines) :
            ~HasDelta(lines[i]) /\ \A j \in (i + 1)..Len(lines) : HasDelta(lines[j])
    ELSE 0

Filed(s, asset, prune) ==
    [split |-> s, asset |-> asset, qual |-> getAssetQualifier(s.account, prune)]

RECURSIVE FileSplits(_, _)
FileSplits(lines, prune) ==
    IF lines = <<>> THEN <<>>
    ELSE IF HasDelta(Head(lines))
         THEN <<Filed(Head(lines), Tally(Head(lines)).asset, prune)>>
                  \o FileSplits(Tail(lines), prune)
         ELSE FileSplits(Tail(lines), prune)

\* the choices the iteration over the tally map has for the split without amount
Picks(lines) ==
    IF NoDelta(lines) = 0 \/ NonZeroTallies(lines) = {} THEN {NULL}
    ELSE NonZeroTallies(lines)

produceSplits(lines, prune, pick) ==
    IF pick = NULL THEN FileSplits(lines, prune)
    ELSE Append(FileSplits(lines, prune),
                Filed([lines[NoDelta(lines)] EXCEPT
                          !.delta = NewAmount(pick, RatNeg(TallyOf(lines, pick)))],
                      pick, prune))

\* a classification that takes a transaction for a trade only when every
\* split with an amount is priced
isTradeAllPriced(lines) == \A i \in 1..Len(lines) : HasDelta(lines[i]) => Priced(lines[i])

isTrade(lines) == \E i \in 1..Len(lines) : HasDelta(lines[i]) /\ Priced(lines[i])

(***************************************************************************)
(* The ledger state: getQueue, buy, sell.  A queue that was never created  *)
(* and an empty queue behave alike: the ledger maps every (asset,          *)
(* qualifier) to its lots.                                                 *)
(***************************************************************************)
AssetB == "BBB"
AssetC == "ABC"
AssetD == "XRP"
Assets == {Base, AssetA, AssetB, AssetC, AssetD}

Stocks == <<"Assets", "Stocks">>
Cash == <<"Assets", "Cash">>
Crypto == <<"Assets", "Crypto">>
Exchange == <<"Assets", "Exchange">>
EquityCash == <<"Equity", "Cash">>
Hot == <<"Assets", "Crypto", "hot">>
Cold == <<"Assets", "Crypto", "cold">>
Fee == <<"Expenses", "Crypto", "fee">>
Accounts == {Stocks, Cash, Crypto, Exchange, EquityCash, Hot, Cold, Fee}
PruneFlags == {0, 3}

Qualifiers == {getAssetQualifier(a, p) : a \in Accounts, p \in PruneFlags}
LedgerKeys == Assets \X Qualifiers

\* the slices a failed call returns are not read by its callers
Failed(lq, why) ==
    [lotQueue |-> lq, lot |-> <<>>, inventory |-> <<>>, basis |-> <<>>, err |-> why]

\* a sell that stores its working copy of the queue whether Sell failed or not
StoredAlways(lq, key, res) ==
    IF res.err
    THEN Failed([lq EXCEPT ![key] = res.queue], "no remaining inventory")
    ELSE [lotQueue |-> [lq EXCEPT ![key] = res.queue], lot |-> res.lot,
          inventory |-> res.inventory, basis |-> res.basis, err |-> NULL]

Stored(lq, key, res) ==
    IF res.err
    THEN Failed(lq, "no remaining inventory")
    ELSE [lotQueue |-> [lq EXCEPT ![key] = res.queue], lot |-> res.lot,
          inventory |-> res.inventory, basis |-> res.basis, err |-> NULL]

\* a sell that falls back on a queue of the same asset under another
\* qualifier when the qualifier's own queue does not hold enough
LedgerSellAnyQualifier(lq, qual, delta) ==
    IF delta.asset = Base THEN Failed(lq, "attempt to sell base asset")
    ELSE LET own == <<delta.asset, qual>>
             enough == {k \in DOMAIN lq :
                           /\ k[1] = delta.asset
                           /\ lq[k] # <<>>
                           /\ ~LotQueueSell(lq[k], delta).err}
             key == IF own \in enough \/ enough = {} THEN own
                    ELSE CHOOSE k \in enough : TRUE
         IN  IF lq[key] = <<>> THEN Failed(lq, "attempt to sell from empty lot")
             ELSE IF ~sanity(lq[key], delta) THEN Failed(lq, "panic")
             ELSE Stored(lq, key, LotQueueSell(lq[key], delta))

\* sell: the working copy of the queue is stored only when Sell succeeded
LedgerSell(lq, qual, delta) ==
    IF delta.asset = Base THEN Failed(lq, "attempt to sell base asset")
    ELSE IF lq[<<delta.asset, qual>>] = <<>>
    THEN Failed(lq, "attempt to sell from empty lot")
    ELSE IF ~sanity(lq[<<delta.asset, qual>>], delta) THEN Failed(lq, "panic")
    ELSE Stored(lq, <<delta.asset, qual>>,
                LotQueueSell(lq[<<delta.asset, qual>>], delta))

LedgerBuy(order, lq, lot, qual) ==
    [lq EXCEPT ![<<lot.inventory.asset, qual>>] = LotQueueBuy(order, @, lot)]

\* the lot events a transaction reports: one per lot sold from or created
Events(lot, inventory, basis, comment) ==
    [j \in 1..Len(lot) |->
        [lot |-> lot[j], inventory |-> Clone(inventory[j]),
         basis |-> Clone(basis[j]), comment |-> comment]]

(***************************************************************************)
(* consumeTrades.  st is the state of the call: the ledger, the weight     *)
(* counter, the events so far, err (NULL: none) and whether it returned.   *)
(***************************************************************************)
Raise(st, why) == [st EXCEPT !.err = why]
Return(st, why) == [st EXCEPT !.err = why, !.stop = TRUE]

\* a new lot whose basis is the price of one unit
BuyLotAtPrice(order, st, s, qual, date, lotDate, lotName, lotBasis, comment) ==
    LET l == [NewLot("temp", date, s.delta, SplitPrice(s), st.weight) EXCEPT
                 !.name = <<"Lot", qual, lotDate, lotName, st.weight + 1>>]
    IN  [st EXCEPT !.lotQueue = LedgerBuy(order, st.lotQueue, l, qual),
                   !.weight = @ + 1,
                   !.events = Append(@, [lot |-> l, inventory |-> Inventory(s),
                                         basis |-> Clone(lotBasis),
                                         comment |-> comment])]

\* a new lot whose name ends without the counter of lots
BuyLotUnnumbered(order, st, s, qual, date, lotDate, lotName, lotBasis, comment) ==
    IF ~NewLotOk(s.delta, lotBasis) THEN Return(st, "panic")
    ELSE LET l == [NewLot("temp", date, s.delta, lotBasis, st.weight) EXCEPT
                      !.name = <<"Lot", qual, lotDate, lotName, 0>>]
         IN  [st EXCEPT !.lotQueue = LedgerBuy(order, st.lotQueue, l, qual),
                        !.weight = @ + 1,
                        !.events = Append(@, [lot |-> l, inventory |-> Inventory(s),
                                              basis |-> Clone(lotBasis),
                                              comment |-> comment])]

\* new lot from trade: the lot is dated with the transaction, lotDate is
\* part of its name only
BuyLot(order, st, s, qual, date, lotDate, lotName, lotBasis, comment) ==
    IF ~NewLotOk(s.delta, lotBasis) THEN Return(st, "panic")
    ELSE LET l == [NewLot("temp", date, s.delta, lotBasis, st.weight) EXCEPT
                      !.name = <<"Lot", qual, lotDate, lotName, st.weight + 1>>]
         IN  [st EXCEPT !.lotQueue = LedgerBuy(order, st.lotQueue, l, qual),
                        !.weight = @ + 1,
                        !.events = Append(@, [lot |-> l, inventory |-> Inventory(s),
                                              basis |-> Clone(lotBasis),
                                              comment |-> comment])]

\* a tally of the basis of a deferred lot in exact amounts
RECURSIVE RawBasis(_)
RawBasis(basis) ==
    IF basis = <<>> THEN RatZero
    ELSE RatSub(RawBasis(SubSeq(basis, 1, Len(basis) - 1)), basis[Len(basis)].rat)

\* To avoid rounding errors, the basis of a deferred lot is tallied as rendered
RECURSIVE RoundedBasis(_)
RoundedBasis(basis) ==
    IF basis = <<>> THEN RatZero
    ELSE RatSub(RoundedBasis(SubSeq(basis, 1, Len(basis) - 1)),
                FloatString(basis[Len(basis)]))

DeferredLot(order, st, s, qual, date, r, lotBasis) ==
    BuyLot(order,
           [st EXCEPT !.lotQueue = r.lotQueue,
                      !.events = @ \o Events(r.lot, r.inventory, r.basis, <<":SELL:DEFER:">>)],
           s, qual, date, r.lot[Len(r.lot)].date,
           <<lotShortName(s.delta, SplitPrice(s)), "@", String(lotBasis)>>,
           lotBasis, <<":BUY:DEFER:">>)

DeferredBuy(order, st, s, qual, date, r) ==
    IF r.err # NULL THEN Return(st, r.err)
    ELSE DeferredLot(order, st, s, qual, date, r,
                     NewAmount(r.basis[1].asset, RoundedBasis(r.basis)))

TradeSell(st, r) ==
    IF r.err # NULL THEN Return(st, "failed to consume sell side of trade")
    ELSE [st EXCEPT !.lotQueue = r.lotQueue,
                    !.events = @ \o Events(r.lot, r.inventory, r.basis, <<":SELL:">>)]

\* a consumer of trade splits that handles base currency like any other asset
TradeSplitAnyAsset(order, st, s, qual, date) ==
    IF Sign(s.delta) = -1
    THEN IF ~Priced(s) THEN st
         ELSE TradeSell(IF SplitCost(s).asset # Base
                        THEN Raise(st, "sell-side priced in non-base currency")
                        ELSE st,
                        LedgerSell(st.lotQueue, qual, s.delta))
    ELSE IF ~Priced(s) THEN Return(st, "apparent trade has no price/cost")
    ELSE IF Sign(s.delta) = 0 THEN Return(st, "panic")
    ELSE IF SplitCost(s).asset = Base
    THEN BuyLot(order, st, s, qual, date, date,
                lotShortName(s.delta, SplitPrice(s)), SplitCost(s), <<":BUY:">>)
    ELSE DeferredBuy(order, st, s, qual, date,
                     LedgerSell(st.lotQueue, qual, NegClone(SplitCost(s))))

TradeSplit(order, st, s, qual, date) ==
    IF s.delta.asset = Base
    THEN IF Priced(s) THEN Raise(st, "Trade has price in non-base currency") ELSE st
    ELSE IF Sign(s.delta) = -1
    THEN IF ~Priced(s) THEN st
         ELSE TradeSell(IF SplitCost(s).asset # Base
                        THEN Raise(st, "sell-side priced in non-base currency")
                        ELSE st,
                        LedgerSell(st.lotQueue, qual, s.delta))
    ELSE IF ~Priced(s) THEN Return(st, "apparent trade has no price/cost")
    ELSE IF Sign(s.delta) = 0 THEN Return(st, "panic")
    ELSE IF SplitCost(s).asset = Base
    THEN BuyLot(order, st, s, qual, date, date,
                lotShortName(s.delta, SplitPrice(s)), SplitCost(s), <<":BUY:">>)
    ELSE DeferredBuy(order, st, s, qual, date,
                     LedgerSell(st.lotQueue, qual, NegClone(SplitCost(s))))

RECURSIVE consumeTrades(_, _, _, _)
consumeTrades(order, st, filed, date) ==
    IF filed = <<>> \/ st.stop THEN st
    ELSE consumeTrades(order,
                       TradeSplit(order, st, Head(filed).split, Head(filed).qual, date),
                       Tail(filed), date)

(***************************************************************************)
(* The order in which the maps of a transaction are iterated: any order of *)
(* the (asset, qualifier) keys that keeps the keys of one asset together.  *)
(***************************************************************************)
Perms(K) ==
    {f \in [1..Cardinality(K) -> K] : \A i, j \in 1..Cardinality(K) : i # j => f[i] # f[j]}

MapOrders(K) ==
    {f \in Perms(K) :
        \A i, j, k \in 1..Cardinality(K) :
            (i < j /\ j < k /\ f[i][1] = f[k][1]) => f[j][1] = f[i][1]}

FiledKeys(filed) == {<<filed[i].asset, filed[i].qual>> : i \in 1..Len(filed)}

Group(filed, key) ==
    SelectSeq(filed, LAMBDA e : e.asset = key[1] /\ e.qual = key[2])

RECURSIVE InOrder(_, _)
InOrder(filed, ord) ==
    IF ord = <<>> THEN <<>>
    ELSE Group(filed, Head(ord)) \o InOrder(filed, Tail(ord))

(***************************************************************************)
(* produceMoves and consumeMoves.  The first pass sells what left each     *)
(* qualifier and remembers it in a temporary queue (st.tmp); the second    *)
(* pass sells from the temporary queue into new lots.                      *)
(***************************************************************************)
RECURSIVE MoveDelta(_)
MoveDelta(splits) ==
    IF splits = <<>> THEN RatZero
    ELSE IF Priced(Head(splits).split) THEN MoveDelta(Tail(splits))
    ELSE RatAdd(Head(splits).split.delta.rat, MoveDelta(Tail(splits)))

produceMoves(filed) == [key \in FiledKeys(filed) |-> MoveDelta(Group(filed, key))]

\* a temporary lot that takes the whole cost of the lot sold from
TmpLotWholeCost(l, i, b, w) == NewLot("tmp", l.date, i, l.startCost, w)

\* remember this inventory for second pass
TmpLot(l, i, b, w) == NewLot("tmp", l.date, i, NegClone(b), w)

RECURSIVE Remember(_, _, _, _, _, _)
Remember(order, st, r, amt, qual, j) ==
    IF j > Len(r.lot) THEN st
    ELSE IF ~NewLotOk(r.inventory[j], NegClone(r.basis[j])) THEN Return(st, "panic")
    ELSE Remember(order,
                  [st EXCEPT
                     !.events = Append(@, [lot |-> r.lot[j],
                                           inventory |-> Clone(r.inventory[j]),
                                           basis |-> Clone(r.basis[j]),
                                           comment |-> <<":MOVE:", "from", String(amt),
                                                         qual, j, Len(r.lot)>>]),
                     !.weight = @ + 1,
                     !.tmp = LotQueueBuy(order, @,
                                 TmpLot(r.lot[j], r.inventory[j], r.basis[j], st.weight))],
                  r, amt, qual, j + 1)

MoveOut(order, st, qual, amt, r) ==
    IF r.err # NULL THEN Return(st, r.err)
    ELSE Remember(order, [st EXCEPT !.lotQueue = r.lotQueue], r, amt, qual, 1)

\* a moved lot dated a year after the lot it came from
MovedLotNextYear(st, l, i, b, qual) ==
    [NewLot(<<"Lot", qual, l.date, lotShortName(i, NewAmount(b.asset, l.price)), l.weight>>,
            l.date + 10000, i, NegClone(b), st.weight)
     EXCEPT !.weight = l.weight]

\* the new lot has the date and the weight of the lot sold from the
\* temporary queue; NewLot still advances the counter
MovedLot(st, l, i, b, qual) ==
    [NewLot(<<"Lot", qual, l.date, lotShortName(i, NewAmount(b.asset, l.price)), l.weight>>,
            l.date, i, NegClone(b), st.weight)
     EXCEPT !.weight = l.weight]

RECURSIVE Arrive(_, _, _, _, _)
Arrive(order, st, r, qual, j) ==
    IF j > Len(r.lot) THEN st
    ELSE IF ~NewLotOk(r.inventory[j], NegClone(r.basis[j])) THEN Return(st, "panic")
    ELSE Arrive(order,
                [st EXCEPT
                   !.lotQueue = LedgerBuy(order, @,
                                    MovedLot(st, r.lot[j], r.inventory[j], r.basis[j], qual),
                                    qual),
                   !.weight = @ + 1,
                   !.events = Append(@, [lot |-> MovedLot(st, r.lot[j], r.inventory[j],
                                                          r.basis[j], qual),
                                         inventory |-> NegClone(r.inventory[j]),
                                         basis |-> NegClone(r.basis[j]),
                                         comment |-> <<":MOVE:", "to",
                                                       String(r.inventory[j]), qual>>])],
                r, qual, j + 1)

MoveIn(order, st, qual, amt) ==
    IF ~sanity(st.tmp, amt) THEN Return(st, "panic")
    ELSE LET r == LotQueueSell(st.tmp, amt)
         IN  IF r.err THEN Return([st EXCEPT !.tmp = r.queue], "no remaining inventory")
             ELSE Arrive(order, [st EXCEPT !.tmp = r.queue], r, qual, 1)

RECURSIVE FirstPass(_, _, _, _, _)
FirstPass(order, st, moves, asset, ord) ==
    IF ord = <<>> \/ st.stop THEN st
    ELSE IF Head(ord)[1] = asset /\ RatSign(moves[Head(ord)]) = -1
    THEN FirstPass(order,
                   MoveOut(order, st, Head(ord)[2], NewAmount(asset, moves[Head(ord)]),
                           LedgerSell(st.lotQueue, Head(ord)[2],
                                      NewAmount(asset, moves[Head(ord)]))),
                   moves, asset, Tail(ord))
    ELSE FirstPass(order, st, moves, asset, Tail(ord))

RECURSIVE SecondPass(_, _, _, _, _)
SecondPass(order, st, moves, asset, ord) ==
    IF ord = <<>> \/ st.stop THEN st
    ELSE IF Head(ord)[1] = asset /\ RatSign(moves[Head(ord)]) = 1
    THEN SecondPass(order,
                    MoveIn(order, st, Head(ord)[2],
                           NegClone(NewAmount(asset, moves[Head(ord)]))),
                    moves, asset, Tail(ord))
    ELSE SecondPass(order, st, moves, asset, Tail(ord))

\* the assets of the keys in the order the outer iteration meets them
RECURSIVE AssetOrder(_)
AssetOrder(ord) ==
    IF ord = <<>> THEN <<>>
    ELSE IF \E i \in 1..(Len(ord) - 1) : ord[i][1] = ord[Len(ord)][1]
    THEN AssetOrder(SubSeq(ord, 1, Len(ord) - 1))
    ELSE Append(AssetOrder(SubSeq(ord, 1, Len(ord) - 1)), ord[Len(ord)][1])

RECURSIVE consumeMoves(_, _, _, _, _, _)
consumeMoves(order, st, moves, assets, ord1, ord2) ==
    IF assets = <<>> \/ st.stop THEN st
    ELSE IF Head(assets) = Base
    THEN consumeMoves(order, st, moves, Tail(assets), ord1, ord2)
    ELSE consumeMoves(order,
                      SecondPass(order,
                                 FirstPass(order, [st EXCEPT !.tmp = <<>>], moves,
                                           Head(assets), ord1),
                                 moves, Head(assets), ord2),
                      moves, Tail(assets), ord1, ord2)

(***************************************************************************)
(* Elapsed: the full calendar years between two dates (a date is the       *)
(* number yyyymmdd), for from <= to.                                       *)
(***************************************************************************)
Year(date) == date \div 10000
MonthDay(date) == date % 10000

Elapsed(from, to) ==
    IF MonthDay(to) < MonthDay(from) THEN Year(to) - Year(from) - 1
    ELSE Year(to) - Year(from)

(***************************************************************************)
(* lotMain, the gains of one transaction.  The tally runs over the lot     *)
(* events in order; amounts enter it as rendered.                          *)
(***************************************************************************)
RECURSIVE BaseDeltas(_)
BaseDeltas(filed) ==
    IF filed = <<>> THEN RatZero
    ELSE IF Head(filed).split.delta.asset = Base
    THEN RatAdd(FloatString(Head(filed).split.delta), BaseDeltas(Tail(filed)))
    ELSE BaseDeltas(Tail(filed))

NoTally(total) ==
    [longBasis |-> RatZero, shortBasis |-> RatZero,
     longInventory |-> NoAmount, shortInventory |-> NoAmount,
     totalGain |-> total, panic |-> FALSE]

IsDisposal(e) == Sign(e.inventory) > 0

\* a classification that counts every disposal as long term
IsLongTermAlways(e, date) == IsDisposal(e)

IsLongTerm(e, date) == IsDisposal(e) /\ Elapsed(e.lot.date, date) > 0
IsShortTerm(e, date) == IsDisposal(e) /\ ~(Elapsed(e.lot.date, date) > 0)

\* the first disposal creates both inventory tallies
Opened(t, e) ==
    IF IsDisposal(e) /\ t.longInventory = NoAmount
    THEN [t EXCEPT !.longInventory = ZeroClone(e.inventory),
                   !.shortInventory = ZeroClone(e.inventory)]
    ELSE t

\* a tally that leaves the basis of lot creations out of the total
TalliedDisposalsOnly(t, e, date, printed) ==
    [t EXCEPT
       !.longBasis = IF IsLongTerm(e, date) THEN RatAdd(@, printed) ELSE @,
       !.longInventory.rat = IF IsLongTerm(e, date) THEN RatAdd(@, e.inventory.rat) ELSE @,
       !.shortBasis = IF IsShortTerm(e, date) THEN RatAdd(@, printed) ELSE @,
       !.shortInventory.rat = IF IsShortTerm(e, date) THEN RatAdd(@, e.inventory.rat) ELSE @,
       !.totalGain = IF IsDisposal(e) THEN RatAdd(@, printed) ELSE @]

Tallied(t, e, date, printed) ==
    [t EXCEPT
       !.longBasis = IF IsLongTerm(e, date) THEN RatAdd(@, printed) ELSE @,
       !.longInventory.rat = IF IsLongTerm(e, date) THEN RatAdd(@, e.inventory.rat) ELSE @,
       !.shortBasis = IF IsShortTerm(e, date) THEN RatAdd(@, printed) ELSE @,
       !.shortInventory.rat = IF IsShortTerm(e, date) THEN RatAdd(@, e.inventory.rat) ELSE @,
       !.totalGain = RatAdd(@, printed)]

\* a tally that adds up the inventory of disposals whatever their asset
TallyEventAnyAsset(t, e, date) == Tallied(Opened(t, e), e, date, FloatString(e.basis))

TallyEvent(t, e, date) ==
    IF IsDisposal(e) /\ Opened(t, e).longInventory.asset # e.inventory.asset
    THEN [t EXCEPT !.panic = TRUE]
    ELSE Tallied(Opened(t, e), e, date, FloatString(e.basis))

RECURSIVE TallyEvents(_, _, _)
TallyEvents(t, events, date) ==
    IF events = <<>> \/ t.panic THEN t
    ELSE TallyEvents(TallyEvent(t, Head(events), date), Tail(events), date)

\* an apportionment by the basis consumed in each bucket
ShortTermGainByBasis(t) ==
    RatAdd(RatMul(t.totalGain, RatQuo(t.shortInventory.rat,
                      RatAdd(t.shortInventory.rat, t.longInventory.rat))),
           t.shortBasis)

\* short term gain = (total gain) * (inventory consumed short term) / (total inventory consumed)
ShortTermGain(t) ==
    RatMul(t.totalGain,
           RatQuo(t.shortInventory.rat, RatAdd(t.shortInventory.rat, t.longInventory.rat)))

LongTermGain(t) == RatSub(t.totalGain, ShortTermGain(t))

\* a gain split that is not negated
GainPostingPlain(gain) ==
    IF RatSign(gain) # 0 THEN NewAmount(Base, gain) ELSE NoAmount

\* the gain split written for a bucket, NoAmount when none is written
GainPosting(gain) ==
    IF RatSign(gain) # 0 THEN NewAmount(Base, RatNeg(gain)) ELSE NoAmount

Gains(t) ==
    IF t.shortInventory # NoAmount /\ t.longInventory # NoAmount
    THEN [sale |-> TRUE, shortTermGain |-> ShortTermGain(t), longTermGain |-> LongTermGain(t),
          short |-> GainPosting(ShortTermGain(t)), long |-> GainPosting(LongTermGain(t))]
    ELSE [sale |-> FALSE, shortTermGain |-> RatZero, longTermGain |-> RatZero,
          short |-> NoAmount, long |-> NoAmount]

(***************************************************************************)
(* lotMain, one transaction: its splits are consumed as trades or as       *)
(* moves, and the gains are tallied from the lot events.  A failure ends   *)
(* the run.                                                                *)
(***************************************************************************)
Started(lq, w) ==
    [lotQueue |-> lq, weight |-> w, events |-> <<>>, err |-> NULL, stop |-> FALSE,
     tmp |-> <<>>]

Consumed(order, lq, w, e, filed, ord1, ord2) ==
    IF isTrade(e.lines)
    THEN consumeTrades(order, Started(lq, w), InOrder(filed, ord1), e.date)
    ELSE consumeMoves(order, Started(lq, w), produceMoves(filed), AssetOrder(ord1),
                      ord1, ord2)

ZeroInventory(events) == \E i \in 1..Len(events) : Sign(events[i].inventory) = 0

TallyOfTx(st, e, filed) ==
    TallyEvents(NoTally(IF isTrade(e.lines) THEN BaseDeltas(filed) ELSE RatZero),
                st.events, e.date)

Outcome(st, t) ==
    IF st.err = "panic" THEN "panic"
    ELSE IF st.err # NULL THEN "error"
    ELSE IF ZeroInventory(st.events) \/ t.panic THEN "panic"
    ELSE "ok"

Written(st, e, filed, t) ==
    [status |-> Outcome(st, t), err |-> st.err, date |-> e.date, payee |-> e.payee,
     lines |-> e.lines, isTrade |-> isTrade(e.lines), splits |-> filed,
     events |-> st.events,
     tally |-> t, gains |-> Gains(t)]

NoTx == [status |-> "none"]

\* the lot postings of a transaction: two for each lot event (inventory and
\* basis) and the gain splits
LotPostings(t) ==
    2 * Len(t.events) + (IF t.gains.short # NoAmount THEN 1 ELSE 0)
                      + (IF t.gains.long # NoAmount THEN 1 ELSE 0)

Block(t, postings) == [date |-> t.date, payee |-> t.payee, postings |-> postings]

\* what the run writes for a transaction: its lines and its lot postings; the
\* lines alone when consuming it failed; nothing when it panicked
Emit(out, t) ==
    IF t.status = "ok" THEN Append(out, Block(t, LotPostings(t)))
    ELSE IF t.status = "error" THEN Append(out, Block(t, 0))
    ELSE out

\* a run that goes on with the next transaction whatever became of this one
HaltsNever(status) == FALSE

\* os.Exit(1) after a failed transaction, or a panic
Halts(status) == status # "ok"

(***************************************************************************)
(* The journals: the transactions of the documented example and of the     *)
(* test data, and trades and moves between qualified accounts.  A journal  *)
(* is any sequence of them in date order.                                  *)
(***************************************************************************)
MaxTx == 4

Amt(n, d, asset) == NewAmount(asset, Rat(n, d))
Line(account, delta, price, cost) ==
    [account |-> account, delta |-> delta, price |-> price, cost |-> cost]
Unpriced(account, delta) == Line(account, delta, NoAmount, NoAmount)
AtPrice(account, delta, price) == Line(account, delta, price, NoAmount)
AtCost(account, delta, cost) == Line(account, delta, NoAmount, cost)
Entry(date, payee, lines) == [date |-> date, payee |-> payee, lines |-> lines]

SimpleLedger ==
    { Entry(20160101, "Bought ABC",
            <<AtPrice(Crypto, Amt(100, 1, AssetC), Amt(1, 50, Base)),
              Unpriced(EquityCash, NoAmount)>>),
      Entry(20170101, "Sell some ABC",
            <<AtPrice(Crypto, Amt(-1, 1, AssetC), Amt(1, 1, Base)),
              Unpriced(Exchange, NoAmount)>>) }

MiscLedgerOf(asset, price) ==
    { Entry(20180101, "Buy 1st lot",
            <<AtPrice(Stocks, Amt(10, 1, asset), Amt(100, 1, Base)),
              Unpriced(Cash, NoAmount)>>),
      Entry(20200101, "Buy 2nd lot",
            <<AtPrice(Stocks, Amt(10, 1, asset), Amt(500, 1, Base)),
              Unpriced(Cash, NoAmount)>>),
      Entry(20200501, "Sell All",
            <<AtPrice(Stocks, Amt(-20, 1, asset), Amt(price, 1, Base)),
              Unpriced(Cash, NoAmount)>>) }

MiscLedger == MiscLedgerOf(AssetA, 1000) \cup MiscLedgerOf(AssetB, 1)

WalletLedger ==
    { Entry(20180101, "Buy hot",
            <<AtPrice(Hot, Amt(4, 1, AssetC), Amt(2, 1, Base)),
              Unpriced(Cash, Amt(-8, 1, Base))>>),
      Entry(20200101, "Buy hot late",
            <<AtCost(Hot, Amt(3, 1, AssetC), Amt(1, 1, Base)),
              Unpriced(Cash, NoAmount)>>),
      Entry(20200301, "Move",
            <<Unpriced(Hot, Amt(-5, 1, AssetC)), Unpriced(Cold, Amt(5, 1, AssetC))>>),
      Entry(20200301, "Move with fee",
            <<Unpriced(Hot, Amt(-5, 1, AssetC)), Unpriced(Cold, Amt(4, 1, AssetC)),
              Unpriced(Fee, NoAmount)>>),
      Entry(20200301, "Move at a loss",
            <<Unpriced(Hot, Amt(-5, 1, AssetC)), Unpriced(Cold, Amt(4, 1, AssetC))>>),
      Entry(20200101, "Barter",
            <<Unpriced(Hot, Amt(-5, 1, AssetC)),
              AtCost(Hot, Amt(3, 1, AssetD), Amt(5, 1, AssetC))>>),
      Entry(20200501, "Sell cold",
            <<AtCost(Cold, Amt(-2, 1, AssetC), Amt(10, 1, Base)),
              Unpriced(Cash, Amt(10, 1, Base))>>),
      Entry(20200301, "Buy dollars",
            <<AtCost(Cash, Amt(10, 1, Base), Amt(5, 1, AssetC)),
              Unpriced(Hot, Amt(-5, 1, AssetC))>>),
      Entry(20200301, "Move cash",
            <<Unpriced(Cash, Amt(-10, 1, Base)), Unpriced(Exchange, Amt(10, 1, Base))>>),
      Entry(20200301, "Move two",
            <<Unpriced(Hot, Amt(-1, 1, AssetC)), Unpriced(Hot, Amt(-1, 1, AssetD)),
              Unpriced(Cold, NoAmount)>>),
      Entry(20200501, "Sell third",
            <<AtPrice(Stocks, Amt(-1, 1, AssetA), Amt(1, 3, Base)),
              Unpriced(Cash, NoAmount)>>),
      Entry(20200501, "Sell two",
            <<AtPrice(Stocks, Amt(-1, 1, AssetA), Amt(5, 1, Base)),
              AtCost(Stocks, Amt(-1, 1, AssetB), Amt(5, 1, Base)),
              Unpriced(Cash, NoAmount)>>) }

Entries == SimpleLedger \cup MiscLedger \cup WalletLedger

(***************************************************************************)
(* The text of an amount.  A string is the sequence of the parts between   *)
(* its single spaces: a numeral (sign, integer digits, the digits after    *)
(* the decimal point), a word, or the empty part between two adjacent      *)
(* spaces or next to a leading or trailing one.                            *)
(***************************************************************************)
AssetUnknown == ""
AssetE == "EUR"
AssetG == "GBP"
AllAssets == Assets \cup {AssetUnknown, AssetE, AssetG}

Num(neg, int, frac) == [kind |-> "num", neg |-> neg, int |-> int, frac |-> frac]
Word(w) == [kind |-> "word", word |-> w]
Empty == [kind |-> "empty"]

RECURSIVE TrimLeft(_)
TrimLeft(str) ==
    IF str # <<>> /\ Head(str).kind = "empty" THEN TrimLeft(Tail(str)) ELSE str

RECURSIVE TrimRight(_)
TrimRight(str) ==
    IF str # <<>> /\ str[Len(str)].kind = "empty"
    THEN TrimRight(SubSeq(str, 1, Len(str) - 1)) ELSE str

\* strings.Split(strings.TrimSpace(str), " "): the empty string has one part
TrimSpace(str) ==
    IF TrimRight(TrimLeft(str)) = <<>> THEN <<Empty>> ELSE TrimRight(TrimLeft(str))

\* the asset code a part is read as
AssetOf(part) == IF part.kind = "word" THEN part.word ELSE AssetUnknown

RECURSIVE FracValue(_)
FracValue(frac) ==
    IF frac = <<>> THEN 0
    ELSE 10 * FracValue(SubSeq(frac, 1, Len(frac) - 1)) + frac[Len(frac)]

\* big.Rat.SetString of a decimal numeral
SetString(num) ==
    Rat((IF num.neg THEN -1 ELSE 1) * (num.int * Pow10(Len(num.frac)) + FracValue(num.frac)),
        Pow10(Len(num.frac)))

\* a parse that takes the decimals of the last amount for the precision
LearnLatest(asset, digits) ==
    IF digits > 0 THEN [decimalPlaces EXCEPT ![asset] = digits] ELSE decimalPlaces

Learn(asset, digits) ==
    IF digits > precision(asset) THEN [decimalPlaces EXCEPT ![asset] = digits]
    ELSE decimalPlaces

NoCall == [op |-> "none"]

ParseError(why) == [err |-> why, amount |-> NoAmount, decimalPlaces |-> decimalPlaces]

Parsed(num, asset) ==
    [err |-> NULL, amount |-> NewAmount(asset, SetString(num)),
     decimalPlaces |-> Learn(asset, Len(num.frac))]

parseAmount(str) ==
    IF Len(TrimSpace(str)) < 2 THEN ParseError("expected amount and asset name")
    ELSE IF TrimSpace(str)[1].kind # "num" THEN ParseError("failed to parse amount")
    ELSE Parsed(TrimSpace(str)[1], AssetOf(TrimSpace(str)[2]))

\* the k decimal digits of n < 10^k
Digits(n, k) == [i \in 1..k |-> (n \div Pow10(k - i)) % 10]

\* big.Rat.FloatString(prec) as text: the sign of the value, the integer
\* part and prec digits of the rounded magnitude
FloatText(x, prec) ==
    Num(x.n < 0,
        RatAbs(RatFloat(x, prec)).n \div RatAbs(RatFloat(x, prec)).d,
        Digits((RatAbs(RatFloat(x, prec)).n % RatAbs(RatFloat(x, prec)).d)
                   * (Pow10(prec) \div RatAbs(RatFloat(x, prec)).d),
               prec))

RECURSIVE TrimZeros(_)
TrimZeros(frac) ==
    IF frac # <<>> /\ frac[Len(frac)] = 0
    THEN TrimZeros(SubSeq(frac, 1, Len(frac) - 1)) ELSE frac

OmitZeros(num) == [num EXCEPT !.frac = TrimZeros(@)]

\* Amount.String as text: "<numeral> <asset>"
StringText(a) ==
    <<OmitZeros(FloatText(a.rat, precision(a.asset))),
      IF a.asset = AssetUnknown THEN Empty ELSE Word(a.asset)>>

AmountIdle ==
    /\ decimalPlaces = [a \in AllAssets |-> 0]
    /\ observed = [a \in AllAssets |-> 0]
    /\ parsed = NoCall

(***************************************************************************)
(* TxScanner and TxLines.  A line is what the scanner looks at: whether it *)
(* starts with white space, what follows before any ";" (nothing, a word   *)
(* that parses as a date, or another word), and whether a comment follows. *)
(***************************************************************************)
PayeeNotFound == -1

ScanLine(indent, body, comment) == [indent |-> indent, body |-> body, comment |-> comment]
ScanLineKinds ==
    {ScanLine(i, b, c) : i \in BOOLEAN, b \in {"", "date", "word"}, c \in BOOLEAN}

\* strings.TrimSpace(line) == ""
IsBlank(line) == line.body = "" /\ ~line.comment

\* TxScanner.Scan: the lines up to the first blank line after a line that is
\* not empty before its comment; that blank line is read and dropped
RECURSIVE ScanLoop(_, _, _)
ScanLoop(input, lines, nonEmpty) ==
    IF input = <<>> THEN [lines |-> lines, rest |-> input]
    ELSE IF IsBlank(Head(input)) /\ nonEmpty THEN [lines |-> lines, rest |-> Tail(input)]
    ELSE ScanLoop(Tail(input), Append(lines, Head(input)),
                  nonEmpty \/ Head(input).body # "")

Scan(input) == ScanLoop(input, <<>>, FALSE)

\* the payee pointer: nil, or an index (of Go, from 0) or PayeeNotFound
NilPayee == [nil |-> TRUE, index |-> PayeeNotFound]
PayeeAt(i) == [nil |-> FALSE, index |-> i]

\* findPayee: from the last line up; running out of lines leaves the pointer nil
RECURSIVE FindFrom(_, _, _)
FindFrom(lines, i, isTx) ==
    IF i = 0 THEN NilPayee
    ELSE IF lines[i].indent THEN FindFrom(lines, i - 1, isTx \/ lines[i].body # "")
    ELSE IF ~isTx THEN PayeeAt(PayeeNotFound)
    ELSE IF lines[i].body = "date" THEN PayeeAt(i - 1)
    ELSE PayeeAt(PayeeNotFound)

findPayee(lines) == FindFrom(lines, Len(lines), FALSE)

\* Payee: findPayee returns *this.payee, a nil pointer dereference when the
\* pointer was left nil
Payee(lines) ==
    [panic |-> findPayee(lines).nil, index |-> findPayee(lines).index]

NoPayee == [panic |-> FALSE, index |-> PayeeNotFound]

ScanIdle ==
    /\ scanInput = <<>>
    /\ scanLines = <<>>
    /\ scanPayee = NoPayee
    /\ scanPhase = "done"

(***************************************************************************)
(* The base operation: prices are collected from "P" lines, and the costs  *)
(* of a transaction that are not in base currency are converted with the   *)
(* price of the day.                                                       *)
(***************************************************************************)
Day1 == 20200101
Day2 == 20200102
HistoryKeys == {Day1, Day2} \X {AssetE, AssetG, AssetC, AssetD}

historyKey(date, asset) == <<date, asset>>

NoPrice == [ok |-> FALSE, rat |-> RatZero]
Price(r) == [ok |-> TRUE, rat |-> r]

\* "P <date> <commodity> <price> <unit>"
PriceLine(date, commodity, price, unit) ==
    [kind |-> "price", date |-> date, commodity |-> commodity, price |-> price,
     unit |-> unit]
TxBlock(date, lines) == [kind |-> "tx", date |-> date, lines |-> lines]
CommentBlock == [kind |-> "comment"]

\* the price history after a block: a price in base currency is kept for the
\* commodity, a price of the base currency is inverted and kept for the unit
ObservePrice(h, b) ==
    IF b.kind # "price" THEN h
    ELSE IF b.unit = Base THEN [h EXCEPT ![historyKey(b.date, b.commodity)] = Price(b.price)]
    ELSE IF b.commodity = Base
    THEN [h EXCEPT ![historyKey(b.date, b.unit)] = Price(RatQuo(RatInt(1), b.price))]
    ELSE h

\* conversion: a map from the text of a cost to its basis in base currency
Has(conversion, key) == \E c \in conversion : c.key = key
Get(conversion, key) == (CHOOSE c \in conversion : c.key = key).basis
Put(conversion, key, basis) ==
    {c \in conversion : c.key # key} \cup {[key |-> key, basis |-> basis]}

Missing(cost, delta, date) == [cost |-> cost.asset, delta |-> delta.asset, date |-> date]

\* first pass, one split
Convert(acc, h, date, s) ==
    IF ~HasDelta(s) \/ ~Priced(s) THEN acc
    ELSE IF SplitCost(s).asset = Base THEN acc
    ELSE IF h[historyKey(date, SplitCost(s).asset)].ok
    THEN [acc EXCEPT !.conversion =
              Put(@, String(SplitCost(s)),
                  NewAmount(Base, RatMul(h[historyKey(date, SplitCost(s).asset)].rat,
                                         SplitCost(s).rat)))]
    ELSE IF h[historyKey(date, s.delta.asset)].ok
    THEN [acc EXCEPT !.conversion =
              Put(@, String(SplitCost(s)),
                  NewAmount(Base, RatAbs(RatMul(h[historyKey(date, s.delta.asset)].rat,
                                                s.delta.rat))))]
    ELSE [acc EXCEPT !.errs = Append(@, Missing(SplitCost(s), s.delta, date))]

RECURSIVE FirstPassBase(_, _, _, _)
FirstPassBase(acc, h, date, lines) ==
    IF lines = <<>> THEN acc
    ELSE FirstPassBase(Convert(acc, h, date, Head(lines)), h, date, Tail(lines))

\* a line as written: the split, and the basis its cost was replaced with
Kept(s) == [split |-> s, basis |-> NoAmount]
Altered(s, basis) == [split |-> s, basis |-> basis]

\* the key the second pass looks up for a split
ConversionKey(s) ==
    IF Priced(s) THEN String(SplitCost(s)) ELSE String(NegClone(s.delta))

\* second pass, one split: a priced split whose cost has no conversion makes
\* AbsClone read the nil Rat of the zero Amount, a split with an amount and
\* no conversion ends in log.Panicf
Panics(conversion, s) == HasDelta(s) /\ ~Has(conversion, ConversionKey(s))

Alter(conversion, s) ==
    IF ~HasDelta(s) THEN Kept(s)
    ELSE IF Priced(s) THEN Altered(s, AbsClone(Get(conversion, ConversionKey(s))))
    ELSE Altered(s, Get(conversion, ConversionKey(s)))

SecondPassBase(conversion, lines) ==
    IF conversion = {} THEN [panic |-> FALSE, lines |-> [i \in 1..Len(lines) |-> Kept(lines[i])]]
    ELSE IF \E i \in 1..Len(lines) : Panics(conversion, lines[i])
    THEN [panic |-> TRUE, lines |-> <<>>]
    ELSE [panic |-> FALSE, lines |-> [i \in 1..Len(lines) |-> Alter(conversion, lines[i])]]

NoErrs == [conversion |-> {}, errs |-> <<>>]

\* what the loop makes of one block
Converted(h, b) ==
    IF b.kind # "tx"
    THEN [block |-> b, conversion |-> {}, errs |-> <<>>, panic |-> FALSE, lines |-> <<>>]
    ELSE [block |-> b,
          conversion |-> FirstPassBase(NoErrs, h, b.date, b.lines).conversion,
          errs |-> FirstPassBase(NoErrs, h, b.date, b.lines).errs,
          panic |-> SecondPassBase(FirstPassBase(NoErrs, h, b.date, b.lines).conversion,
                                   b.lines).panic,
          lines |-> SecondPassBase(FirstPassBase(NoErrs, h, b.date, b.lines).conversion,
                                   b.lines).lines]

\* the lines written for a block and the FIXME lines after them
BaseWritten(r) == [block |-> r.block, lines |-> r.lines, fixme |-> r.errs]

\* command.Error: the status becomes 1 unless it is set already
Error(status) == IF status = 0 THEN 1 ELSE status

NoBlock == [block |-> [kind |-> "none"], conversion |-> {}, errs |-> <<>>,
            panic |-> FALSE, lines |-> <<>>]

BaseIdle ==
    /\ priceHistory = [k \in HistoryKeys |-> NoPrice]
    /\ baseStatus = 0
    /\ baseOut = <<>>
    /\ baseCount = 0
    /\ baseLast = NoBlock
    /\ basePhase = "idle"

(***************************************************************************)
(* The lot operation over a journal.                                       *)
(***************************************************************************)
Init ==
    /\ orderFlag \in {FIFO, LIFO}
    /\ pruneFlag \in PruneFlags
    /\ weight = 0
    /\ lotQueue = [k \in LedgerKeys |-> <<>>]
    /\ txCount = 0
    /\ txDate = 0
    /\ tx = NoTx
    /\ halted = FALSE
    /\ written = <<>>
    /\ AmountIdle
    /\ ScanIdle
    /\ BaseIdle
    /\ queue = <<>>
    /\ qBought = RatZero
    /\ qSold = RatZero
    /\ qLast = [op |-> "new", pre |-> <<>>, delta |-> NULL, res |-> NULL]
    /\ qCreated = <<>>
    /\ qReleased = <<>>

ProcessTx ==
    /\ ~halted
    /\ txCount < MaxTx
    /\ \E e \in Entries :
         /\ e.date >= txDate
         /\ \E pick \in Picks(e.lines) :
            \E filed \in {produceSplits(e.lines, pruneFlag, pick)} :
            \E ord1 \in MapOrders(FiledKeys(filed)) :
            \E ord2 \in (IF isTrade(e.lines) THEN {ord1} ELSE MapOrders(FiledKeys(filed))) :
            \E st \in {Consumed(orderFlag, lotQueue, weight, e, filed, ord1, ord2)} :
            \E t \in {TallyOfTx(st, e, filed)} :
              /\ tx' = Written(st, e, filed, t)
              /\ lotQueue' = st.lotQueue
              /\ weight' = st.weight
              /\ txCount' = txCount + 1
              /\ txDate' = e.date
              /\ halted' = Halts(Outcome(st, t))
              /\ written' = Emit(written, Written(st, e, filed, t))
    /\ UNCHANGED <<orderFlag, pruneFlag>>
    /\ UNCHANGED queueVars
    /\ UNCHANGED amountVars
    /\ UNCHANGED scanVars
    /\ UNCHANGED baseVars

Next == ProcessTx

Spec == Init /\ [][Next]_vars

(***************************************************************************)
(* The queue specification: Buy and Sell called directly on one LotQueue.  *)
(***************************************************************************)
QInit ==
    /\ orderFlag \in {FIFO, LIFO}
    /\ weight = 0
    /\ queue = <<>>
    /\ qBought = RatZero
    /\ qSold = RatZero
    /\ qLast = [op |-> "new", pre |-> <<>>, delta |-> NULL, res |-> NULL]
    /\ qCreated = <<>>
    /\ qReleased = <<>>
    /\ pruneFlag = 0
    /\ lotQueue = [k \in LedgerKeys |-> <<>>]
    /\ txCount = 0
    /\ txDate = 0
    /\ tx = NoTx
    /\ halted = FALSE
    /\ written = <<>>
    /\ AmountIdle
    /\ ScanIdle
    /\ BaseIdle

QBuy ==
    \E date \in QDates, qty \in 1..MaxQty, cost \in QBases :
        \E lot \in {NewLot("lot", date, NewAmount(AssetA, RatInt(qty)),
                            NewAmount(Base, RatInt(cost)), weight)} :
            /\ weight < MaxLots
            /\ NewLotOk(lot.inventory, lot.startCost)
            /\ sanity(queue, lot.inventory)
            /\ weight' = weight + 1
            /\ queue' = LotQueueBuy(orderFlag, queue, lot)
            /\ qBought' = RatAdd(qBought, lot.inventory.rat)
            /\ qCreated' = Append(qCreated, lot.inventory.rat)
            /\ qReleased' = Append(qReleased, [cost |-> lot.startCost.rat, released |-> RatZero])
            /\ qLast' = [op |-> "buy", pre |-> queue, delta |-> lot.inventory,
                         res |-> lot]
            /\ UNCHANGED <<orderFlag, qSold>>
            /\ UNCHANGED ledgerVars
            /\ UNCHANGED amountVars
            /\ UNCHANGED scanVars
            /\ UNCHANGED baseVars

\* the basis the Sells have returned, as absolute amounts, by weight of lot
Released(released, res) ==
    [w \in DOMAIN released |->
        [released[w] EXCEPT !.released =
            RatAdd(@, SumRat([j \in 1..Len(res.lot) |->
                                 IF res.lot[j].weight = w THEN RatAbs(res.basis[j].rat)
                                 ELSE RatZero]))]]

\* amounts sold run up to twice what any one lot holds
QSell ==
    \E k \in 1..(2 * MaxQty) :
        \E delta \in {NewAmount(AssetA, RatInt(-k))} :
            /\ sanity(queue, delta)
            /\ \E res \in {LotQueueSell(queue, delta)} :
                  /\ queue' = res.queue
                  /\ qSold' = RatAdd(qSold, SumRat(Rats(res.inventory)))
                  /\ qLast' = [op |-> "sell", pre |-> queue, delta |-> delta,
                               res |-> res]
                  /\ qReleased' = Released(qReleased, res)
            /\ UNCHANGED <<orderFlag, weight, qBought, qCreated>>
            /\ UNCHANGED ledgerVars
            /\ UNCHANGED amountVars
            /\ UNCHANGED scanVars
            /\ UNCHANGED baseVars

QNext == QBuy \/ QSell

QueueSpec == QInit /\ [][QNext]_vars

(***************************************************************************)
(* The amount specification: parseAmount called on amount texts, and       *)
(* Amount.String parsed back.                                              *)
(***************************************************************************)
AmountAssets == {AssetUnknown, Base, AssetC}
Fractions == {<<>>, <<5>>, <<0, 0, 0, 0, 0, 0, 1>>, <<0, 0, 0, 0, 0, 0, 0, 5>>}
Numerals == {Num(neg, int, frac) : neg \in BOOLEAN, int \in {0, 1}, frac \in Fractions}

\* "1.5 USD", "1.5" (no asset), "1.5  USD" (two spaces), " 1.5 USD", "x USD"
Texts ==
    {<<n, Word(a)>> : n \in Numerals, a \in {Base, AssetC}}
        \cup {<<Num(FALSE, 1, f)>> : f \in Fractions}
        \cup {<<Num(FALSE, 1, f), Empty, Word(Base)>> : f \in Fractions}
        \cup {<<Empty, Num(FALSE, 1, f), Word(Base)>> : f \in Fractions}
        \cup {<<Word("x"), Word(Base)>>, <<>>}

RoundTripValues ==
    {RatZero, Rat(1, 3), Rat(-2, 3), Rat(5, 2), Rat(1, 8), Rat(-1, 20000000),
     Rat(3, 20000000)}
RoundTripAmounts == {NewAmount(a, r) : a \in AmountAssets, r \in RoundTripValues}

Larger(m, n) == IF m > n THEN m ELSE n

\* the decimals seen in the amounts parsed so far
Observe(str, r) ==
    IF r.err # NULL THEN observed
    ELSE [observed EXCEPT ![r.amount.asset] = Larger(@, Len(TrimSpace(str)[1].frac))]

Call(op, a, str, r) ==
    [op |-> op, a |-> a, str |-> str, err |-> r.err, amount |-> r.amount,
     before |-> decimalPlaces]

AInit ==
    /\ QInit
    /\ orderFlag = FIFO

AParse ==
    \E str \in Texts :
        \E r \in {parseAmount(str)} :
            /\ decimalPlaces' = r.decimalPlaces
            /\ observed' = Observe(str, r)
            /\ parsed' = Call("parse", NoAmount, str, r)
            /\ UNCHANGED <<orderFlag, weight>>
            /\ UNCHANGED queueVars
            /\ UNCHANGED ledgerVars
            /\ UNCHANGED scanVars
            /\ UNCHANGED baseVars

ARoundTrip ==
    \E a \in RoundTripAmounts :
        \E str \in {StringText(a)} :
        \E r \in {parseAmount(str)} :
            /\ decimalPlaces' = r.decimalPlaces
            /\ observed' = Observe(str, r)
            /\ parsed' = Call("roundtrip", a, str, r)
            /\ UNCHANGED <<orderFlag, weight>>
            /\ UNCHANGED queueVars
            /\ UNCHANGED ledgerVars
            /\ UNCHANGED scanVars
            /\ UNCHANGED baseVars

ANext == AParse \/ ARoundTrip

AmountSpec == AInit /\ [][ANext]_vars

(***************************************************************************)
(* The scanner specification: the loop of an operation over an input,      *)
(* Scan and Payee in turn.                                                 *)
(***************************************************************************)
MaxLines == 3

RECURSIVE ScanInputs(_)
ScanInputs(n) ==
    IF n = 0 THEN {<<>>}
    ELSE ScanInputs(n - 1)
             \cup {Append(in, l) : in \in {x \in ScanInputs(n - 1) : Len(x) = n - 1},
                                  l \in ScanLineKinds}

SInit ==
    /\ orderFlag = FIFO
    /\ weight = 0
    /\ queue = <<>>
    /\ qBought = RatZero
    /\ qSold = RatZero
    /\ qLast = [op |-> "new", pre |-> <<>>, delta |-> NULL, res |-> NULL]
    /\ qCreated = <<>>
    /\ qReleased = <<>>
    /\ pruneFlag = 0
    /\ lotQueue = [k \in LedgerKeys |-> <<>>]
    /\ txCount = 0
    /\ txDate = 0
    /\ tx = NoTx
    /\ halted = FALSE
    /\ written = <<>>
    /\ AmountIdle
    /\ scanInput \in ScanInputs(MaxLines)
    /\ scanLines = <<>>
    /\ scanPayee = NoPayee
    /\ scanPhase = "scan"
    /\ BaseIdle

SScan ==
    /\ scanPhase = "scan"
    /\ \E r \in {Scan(scanInput)} :
          /\ scanLines' = r.lines
          /\ scanInput' = r.rest
          /\ scanPhase' = IF Len(r.lines) > 0 THEN "payee" ELSE "done"
    /\ scanPayee' = NoPayee
    /\ UNCHANGED <<orderFlag, weight>>
    /\ UNCHANGED queueVars
    /\ UNCHANGED ledgerVars
    /\ UNCHANGED amountVars
    /\ UNCHANGED baseVars

SPayee ==
    /\ scanPhase = "payee"
    /\ scanPayee' = Payee(scanLines)
    /\ scanPhase' = IF Payee(scanLines).panic THEN "panic" ELSE "scan"
    /\ UNCHANGED <<scanInput, scanLines>>
    /\ UNCHANGED <<orderFlag, weight>>
    /\ UNCHANGED queueVars
    /\ UNCHANGED ledgerVars
    /\ UNCHANGED amountVars
    /\ UNCHANGED baseVars

SNext == SScan \/ SPayee

ScanSpec == SInit /\ [][SNext]_vars

(***************************************************************************)
(* The base specification: baseMain over the blocks of an input.           *)
(***************************************************************************)
MaxBlocks == 4

BaseBlocks ==
    { PriceLine(Day1, AssetE, Rat(11, 10), Base),
      PriceLine(Day2, AssetE, Rat(6, 5), Base),
      PriceLine(Day1, AssetC, RatInt(3), Base),
      PriceLine(Day1, Base, Rat(4, 5), AssetG),
      PriceLine(Day1, AssetC, RatInt(2), AssetE),
      CommentBlock,
      TxBlock(Day1, <<AtPrice(Hot, Amt(1, 1, AssetC), Amt(2, 1, AssetE)),
                      Unpriced(Cash, Amt(-2, 1, AssetE))>>),
      TxBlock(Day1, <<AtPrice(Hot, Amt(1, 1, AssetC), Amt(2, 1, AssetE)),
                      Unpriced(Cash, Amt(-2, 1, AssetE)),
                      AtCost(Hot, Amt(1, 1, AssetD), Amt(3, 1, AssetG)),
                      Unpriced(Cash, Amt(-3, 1, AssetG))>>),
      TxBlock(Day1, <<AtCost(Hot, Amt(1, 1, AssetD), Amt(3, 1, AssetG)),
                      Unpriced(Cash, NoAmount)>>),
      TxBlock(Day2, <<AtPrice(Hot, Amt(-1, 1, AssetD), Amt(2, 1, Base)),
                      Unpriced(Cash, NoAmount)>>) }

BInit ==
    /\ orderFlag = FIFO
    /\ weight = 0
    /\ queue = <<>>
    /\ qBought = RatZero
    /\ qSold = RatZero
    /\ qLast = [op |-> "new", pre |-> <<>>, delta |-> NULL, res |-> NULL]
    /\ qCreated = <<>>
    /\ qReleased = <<>>
    /\ pruneFlag = 0
    /\ lotQueue = [k \in LedgerKeys |-> <<>>]
    /\ txCount = 0
    /\ txDate = 0
    /\ tx = NoTx
    /\ halted = FALSE
    /\ written = <<>>
    /\ AmountIdle
    /\ ScanIdle
    /\ priceHistory = [k \in HistoryKeys |-> NoPrice]
    /\ baseStatus = 0
    /\ baseOut = <<>>
    /\ baseCount = 0
    /\ baseLast = NoBlock
    /\ basePhase = "run"

BRead ==
    /\ basePhase = "run"
    /\ baseCount < MaxBlocks
    /\ \E b \in BaseBlocks :
        \E r \in {Converted(ObservePrice(priceHistory, b), b)} :
          /\ priceHistory' = ObservePrice(priceHistory, b)
          /\ baseCount' = baseCount + 1
          /\ baseLast' = r
          /\ basePhase' = IF r.panic THEN "panic" ELSE "run"
          /\ baseOut' = IF r.panic THEN baseOut ELSE Append(baseOut, BaseWritten(r))
          /\ baseStatus' = IF ~r.panic /\ r.errs # <<>> THEN Error(baseStatus)
                           ELSE baseStatus
    /\ UNCHANGED <<orderFlag, weight>>
    /\ UNCHANGED queueVars
    /\ UNCHANGED ledgerVars
    /\ UNCHANGED amountVars
    /\ UNCHANGED scanVars

\* the input has ended: command.Exit leaves with the status
BExit ==
    /\ basePhase = "run"
    /\ basePhase' = "exited"
    /\ UNCHANGED <<priceHistory, baseStatus, baseOut, baseCount, baseLast>>
    /\ UNCHANGED <<orderFlag, weight>>
    /\ UNCHANGED queueVars
    /\ UNCHANGED ledgerVars
    /\ UNCHANGED amountVars
    /\ UNCHANGED scanVars

BNext == BRead \/ BExit

BaseSpec == BInit /\ [][BNext]_vars


(***************************************************************************)
(* Properties of the queue specification.                                  *)
(***************************************************************************)
LastSell == qLast.op = "sell"
Sold == RatNeg(qLast.delta.rat)            \* |delta| of the last Sell
Before(a, b) == a.date < b.date \/ (a.date = b.date /\ a.weight < b.weight)
IsEarliest(lots, i) == \A j \in 1..Len(lots) : j # i => Before(lots[i], lots[j])
LatestDate(lots, i) == \A j \in 1..Len(lots) : lots[j].date <= lots[i].date

\* exactly lot i of pre lost amt of inventory; it is still in the queue, and
\* every other lot and the order of the queue are as before
OnlyReduced(pre, post, i, amt) ==
    /\ Len(post) = Len(pre)
    /\ \A j \in 1..Len(pre) : j # i => post[j] = pre[j]
    /\ post[i].inventory.rat = RatSub(pre[i].inventory.rat, amt)
    /\ post[i].inventory.asset = pre[i].inventory.asset
    /\ post[i].date = pre[i].date /\ post[i].weight = pre[i].weight
    /\ post[i].name = pre[i].name

\* C1: the inventories of all lots bought equal the inventories remaining in
\* the queue plus all 'actual' amounts Sell returned, also after a Sell that
\* ran out of inventory.
C1_Conservation == qBought = RatAdd(SumRat(Inventories(queue)), qSold)

C1_Witness ==
    /\ LastSell /\ qLast.res.err
    /\ Len(qLast.pre) >= 2
    /\ RatSign(qSold) > 0

\* C2: under FIFO a Sell of less than the inventory of the lot earliest by
\* (date, weight) reduces that lot alone and keeps it in place; every Sell
\* consumes lots in ascending date order.
C2_Fifo ==
    (orderFlag = FIFO /\ LastSell) =>
        /\ \A i \in 1..Len(qLast.pre) :
              (IsEarliest(qLast.pre, i) /\ RatLess(Sold, qLast.pre[i].inventory.rat))
                  => OnlyReduced(qLast.pre, queue, i, Sold)
        /\ \A i, j \in 1..Len(qLast.res.lot) :
              i < j => qLast.res.lot[i].date <= qLast.res.lot[j].date

C2_Witness ==
    /\ orderFlag = FIFO /\ LastSell
    /\ Len(qLast.pre) >= 2
    /\ \E i \in 1..Len(qLast.pre) :
          /\ IsEarliest(qLast.pre, i)
          /\ RatLess(Sold, qLast.pre[i].inventory.rat)
          /\ i = Len(qLast.pre)
          /\ qLast.pre[1].weight < qLast.pre[i].weight

\* C3: under LIFO a Sell of less than the inventory of the lot with the
\* latest date reduces one lot of that date alone and keeps it in place;
\* every Sell consumes lots in descending date order.
C3_Lifo ==
    (orderFlag = LIFO /\ LastSell) =>
        /\ (\A i \in 1..Len(qLast.pre) :
               LatestDate(qLast.pre, i) => RatLess(Sold, qLast.pre[i].inventory.rat))
              => \E i \in 1..Len(qLast.pre) :
                    LatestDate(qLast.pre, i) /\ OnlyReduced(qLast.pre, queue, i, Sold)
        /\ \A i, j \in 1..Len(qLast.res.lot) :
              i < j => qLast.res.lot[i].date >= qLast.res.lot[j].date

C3_Witness ==
    /\ orderFlag = LIFO /\ LastSell
    /\ Len(qLast.pre) >= 2
    /\ \E i \in 1..Len(qLast.pre) :
          /\ LatestDate(qLast.pre, i) /\ ~LatestDate(qLast.pre, 1)
          /\ RatLess(Sold, qLast.pre[i].inventory.rat)
          /\ qLast.pre[i].weight < qLast.pre[1].weight

\* C4 as stated: of two lots of equal date, Sell consumes the one with the
\* smaller weight first under both policies.
C4_SmallerWeightFirst ==
    LastSell =>
        \A i, j \in 1..Len(qLast.res.lot) :
            (i < j /\ qLast.res.lot[i].date = qLast.res.lot[j].date)
                => qLast.res.lot[i].weight < qLast.res.lot[j].weight

\* C4 as amended: of two lots of equal date, Sell consumes the one with the
\* smaller weight first under FIFO and the one with the larger weight first
\* under LIFO.
C4_TieBreak ==
    LastSell =>
        \A i, j \in 1..Len(qLast.res.lot) :
            (i < j /\ qLast.res.lot[i].date = qLast.res.lot[j].date)
                => IF orderFlag = FIFO
                   THEN qLast.res.lot[i].weight < qLast.res.lot[j].weight
                   ELSE qLast.res.lot[i].weight > qLast.res.lot[j].weight

C4_Witness ==
    /\ orderFlag = LIFO /\ LastSell
    /\ Len(qLast.res.lot) >= 2
    /\ qLast.res.lot[1].date = qLast.res.lot[2].date

\* the lots Sell has seen: those in the queue and those the last Sell returned
LotsSeen ==
    {queue[i] : i \in 1..Len(queue)}
        \cup (IF LastSell THEN {qLast.res.lot[i] : i \in 1..Len(qLast.res.lot)} ELSE {})

\* C11: every lot has 0 <= remaining inventory <= the inventory it was
\* created with.
C11_InventoryRange ==
    \A l \in LotsSeen :
        /\ RatSign(l.inventory.rat) >= 0
        /\ ~RatLess(qCreated[l.weight], l.inventory.rat)

C11_Witness ==
    /\ LastSell
    /\ \E l \in LotsSeen : RatSign(l.inventory.rat) = 0
    /\ \E i \in 1..Len(queue) :
          /\ RatSign(queue[i].inventory.rat) = 1
          /\ RatLess(queue[i].inventory.rat, qCreated[queue[i].weight])

\* C12: Sell leaves startInventory, startCost and price of every lot as they
\* were at creation, so price = startCost / startInventory in every state.
C12_StartFieldsFixed ==
    \A l \in LotsSeen :
        /\ l.startInventory.rat = qCreated[l.weight]
        /\ l.price = RatQuo(l.startCost.rat, l.startInventory.rat)

\* what holds instead: the price stays the cost over the inventory the lot
\* was created with, while startInventory follows the remaining inventory
\* of a lot that was sold from in part
C12_Observed ==
    \A l \in LotsSeen :
        /\ l.price = RatQuo(l.startCost.rat, qCreated[l.weight])
        /\ RatSign(l.inventory.rat) = 1 => l.startInventory.rat = l.inventory.rat

RatMin(a, b) == IF RatLess(a, b) THEN a ELSE b

\* the lot the j-th Lot.Sell of the last Sell was called on, and what was
\* still to sell (as a positive number) when it was called
SoldFrom(j) == qLast.pre[Len(qLast.pre) - j + 1]
ToSell(j) == RatSub(Sold, SumRat(Rats(SubSeq(qLast.res.inventory, 1, j - 1))))

\* C13: Lot.Sell(delta), delta < 0, returns actual = min(|delta|, inventory
\* before), leaves inventory = before - actual and returns basis =
\* -(price x actual); so actual > 0 and basis <= 0.
C13_LotSell ==
    LastSell =>
        \A j \in 1..Len(qLast.res.lot) :
            /\ qLast.res.inventory[j].rat = RatMin(ToSell(j), SoldFrom(j).inventory.rat)
            /\ qLast.res.inventory[j].asset = SoldFrom(j).inventory.asset
            /\ qLast.res.lot[j].inventory.rat
                 = RatSub(SoldFrom(j).inventory.rat, qLast.res.inventory[j].rat)
            /\ qLast.res.basis[j].rat
                 = RatNeg(RatMul(SoldFrom(j).price, qLast.res.inventory[j].rat))
            /\ qLast.res.basis[j].asset = SoldFrom(j).startCost.asset
            /\ RatSign(qLast.res.inventory[j].rat) = 1
            /\ RatSign(qLast.res.basis[j].rat) <= 0

C13_Witness ==
    /\ LastSell /\ Len(qLast.res.lot) = 2
    /\ RatLess(SoldFrom(1).inventory.rat, ToSell(1))
    /\ RatLess(ToSell(2), SoldFrom(2).inventory.rat)
    /\ RatSign(qLast.res.basis[1].rat) = -1
    /\ RatSign(qLast.res.basis[2].rat) = -1
    /\ RatSign(qLast.res.lot[2].inventory.rat) = 1

\* C10: a Sell of more than the queue holds fails, the amounts it reports
\* are the inventories of the lots it removed, in the order of consumption,
\* and no other lot of the queue is changed.
C10_Insufficient ==
    LastSell =>
        /\ RatLess(SumRat(Inventories(qLast.pre)), Sold) => qLast.res.err
        /\ qLast.res.err =>
              /\ Len(queue) <= Len(qLast.pre)
              /\ queue = SubSeq(qLast.pre, 1, Len(queue))
              /\ Len(qLast.res.inventory) = Len(qLast.pre) - Len(queue)
              /\ \A j \in 1..Len(qLast.res.inventory) :
                    qLast.res.inventory[j] = qLast.pre[Len(qLast.pre) + 1 - j].inventory
              /\ RatLess(SumRat(Rats(qLast.res.inventory)), Sold)

C10_Witness ==
    /\ LastSell /\ qLast.res.err
    /\ Len(qLast.res.inventory) >= 2
    /\ qLast.res.inventory[1] # qLast.res.inventory[2]

(***************************************************************************)
(* Properties of the gains of a transaction, recomputed from its splits    *)
(* and its lot events.                                                     *)
(***************************************************************************)
TxOk == tx.status = "ok"

Disposed(e) == Sign(e.inventory) > 0
HeldYears(e) == Elapsed(e.lot.date, tx.date)

\* the base currency received or paid by the splits, as rendered
Proceeds ==
    SumRat([i \in 1..Len(tx.splits) |->
               IF tx.splits[i].split.delta.asset = Base
               THEN FloatString(tx.splits[i].split.delta) ELSE RatZero])

RenderedBasis(keep(_)) ==
    SumRat([i \in 1..Len(tx.events) |->
               IF keep(tx.events[i]) THEN FloatString(tx.events[i].basis) ELSE RatZero])

DisposedInventory(keep(_)) ==
    SumRat([i \in 1..Len(tx.events) |->
               IF Disposed(tx.events[i]) /\ keep(tx.events[i])
               THEN tx.events[i].inventory.rat ELSE RatZero])

Posted(p) == IF p = NoAmount THEN RatZero ELSE p.rat
TalliedInventory(a) == IF a = NoAmount THEN RatZero ELSE a.rat

SellsForBase ==
    /\ TxOk /\ tx.isTrade /\ tx.events # <<>>
    /\ \A i \in 1..Len(tx.events) : Disposed(tx.events[i])

\* C5: for a trade that sells inventory for base currency, the gain (short
\* plus long term) is the proceeds minus the basis consumed from the lots,
\* and the gain splits carry it negated; in the documented example, 1 ABC
\* sold at 1 USD out of the lot bought at 0.02 USD consumes -0.02 USD of
\* basis and writes a long term gain of -0.98 USD.
C5_RealizedGain ==
    SellsForBase =>
      /\ RatAdd(tx.gains.shortTermGain, tx.gains.longTermGain)
           = RatAdd(Proceeds, RenderedBasis(LAMBDA e : TRUE))
      /\ Posted(tx.gains.short) = RatNeg(tx.gains.shortTermGain)
      /\ Posted(tx.gains.long) = RatNeg(tx.gains.longTermGain)
      /\ tx.payee = "Sell some ABC" =>
            /\ Len(tx.events) = 1
            /\ tx.events[1].basis = Amt(-1, 50, Base)
            /\ tx.gains.long = Amt(-49, 50, Base)
            /\ tx.gains.short = NoAmount

C5_Witness ==
    /\ SellsForBase
    /\ tx.payee = "Sell some ABC"
    /\ tx.events[1].inventory = Amt(1, 1, AssetC)
    /\ tx.gains.long = Amt(-49, 50, Base)

SellAll ==
    /\ TxOk /\ orderFlag = FIFO /\ tx.payee = "Sell All" /\ tx.date = 20200501
    /\ Len(tx.events) = 2
    /\ tx.events[1].inventory = Amt(10, 1, AssetA)
    /\ tx.events[1].lot.date = 20180101
    /\ tx.events[1].basis = Amt(-1000, 1, Base)
    /\ tx.events[2].inventory = Amt(10, 1, AssetA)
    /\ tx.events[2].lot.date = 20200101
    /\ tx.events[2].basis = Amt(-5000, 1, Base)
    /\ Proceeds = RatInt(20000)

\* C7: in the test data's scenario the gains written are long term 9000 and
\* short term 5000 (each bucket's share of the proceeds minus the basis
\* consumed in that bucket), both negated.
C7_FixtureGains ==
    SellAll => /\ tx.gains.long = Amt(-9000, 1, Base)
               /\ tx.gains.short = Amt(-5000, 1, Base)

\* what the run writes in that scenario: the total gain of 14000 shared by
\* inventory, 7000 to each bucket
C7_Observed ==
    SellAll => /\ tx.gains.long = Amt(-7000, 1, Base)
               /\ tx.gains.short = Amt(-7000, 1, Base)

\* C8 as stated: the total gain is the base-currency deltas (trades only)
\* plus the rendered basis of the disposal events only.
C8_DisposalsOnly ==
    TxOk => tx.tally.totalGain
              = RatAdd(IF tx.isTrade THEN Proceeds ELSE RatZero, RenderedBasis(Disposed))

\* C8: the total gain of a transaction is the sum of the base-currency
\* deltas of its splits (trades only) plus the rendered basis of every lot
\* event, disposals and lot creations alike.
C8_TotalGain ==
    TxOk => tx.tally.totalGain
              = RatAdd(IF tx.isTrade THEN Proceeds ELSE RatZero,
                       RenderedBasis(LAMBDA e : TRUE))

C8_Witness ==
    /\ TxOk /\ tx.isTrade
    /\ \E i \in 1..Len(tx.events) :
          ~Disposed(tx.events[i]) /\ Sign(tx.events[i].basis) = 1
    /\ tx.tally.totalGain # RatAdd(Proceeds, RenderedBasis(Disposed))

\* C9: every disposal event (positive inventory) is counted in exactly one
\* bucket, long term when at least one full calendar year lies between the
\* lot's date and the transaction's and short term otherwise; lot creations
\* are in neither bucket's inventory.
C9_HoldingPeriod ==
    TxOk =>
      /\ TalliedInventory(tx.tally.longInventory)
           = DisposedInventory(LAMBDA e : HeldYears(e) >= 1)
      /\ TalliedInventory(tx.tally.shortInventory)
           = DisposedInventory(LAMBDA e : HeldYears(e) < 1)
      /\ tx.tally.longBasis = RenderedBasis(LAMBDA e : Disposed(e) /\ HeldYears(e) >= 1)
      /\ tx.tally.shortBasis = RenderedBasis(LAMBDA e : Disposed(e) /\ HeldYears(e) < 1)

C9_Witness ==
    /\ TxOk
    /\ \E i, j, k \in 1..Len(tx.events) :
          /\ Disposed(tx.events[i]) /\ HeldYears(tx.events[i]) >= 1
          /\ Disposed(tx.events[j]) /\ HeldYears(tx.events[j]) < 1
          /\ ~Disposed(tx.events[k])
    /\ RatSign(TalliedInventory(tx.tally.longInventory)) = 1
    /\ RatSign(TalliedInventory(tx.tally.shortInventory)) = 1

(***************************************************************************)
(* Properties of moves.  A move reports an event for every lot it sold     *)
(* from (inventory > 0) and for every lot it created (inventory < 0).      *)
(***************************************************************************)
MoveOk == TxOk /\ ~tx.isTrade /\ tx.events # <<>>

Left(keep(_)) ==
    SumRat([i \in 1..Len(tx.events) |->
               IF Disposed(tx.events[i]) /\ keep(tx.events[i].lot)
               THEN tx.events[i].inventory.rat ELSE RatZero])

Arrived(keep(_)) ==
    SumRat([i \in 1..Len(tx.events) |->
               IF ~Disposed(tx.events[i]) /\ keep(tx.events[i].lot)
               THEN RatNeg(tx.events[i].inventory.rat) ELSE RatZero])

InLedger(l) == \E k \in LedgerKeys : \E i \in 1..Len(lotQueue[k]) : lotQueue[k][i] = l

\* C14: every lot a move creates in a destination queue has the date of a
\* lot the move sold from, and no more inventory arrives with a date than
\* left the lots of that date; so the holding period of the inventory is
\* what it was before the move.
C14_MoveKeepsDate ==
    MoveOk =>
        \A i \in 1..Len(tx.events) :
            ~Disposed(tx.events[i]) =>
                /\ InLedger(tx.events[i].lot)
                /\ \E j \in 1..Len(tx.events) :
                      /\ Disposed(tx.events[j])
                      /\ tx.events[j].lot.date = tx.events[i].lot.date
                /\ ~RatLess(Left(LAMBDA l : l.date = tx.events[i].lot.date),
                            Arrived(LAMBDA l : l.date = tx.events[i].lot.date))

C14_Witness ==
    /\ MoveOk
    /\ \E i, j \in 1..Len(tx.events) :
          /\ ~Disposed(tx.events[i]) /\ ~Disposed(tx.events[j])
          /\ tx.events[i].lot.date < tx.events[j].lot.date
          /\ tx.events[j].lot.date < tx.date
          /\ InLedger(tx.events[i].lot) /\ InLedger(tx.events[j].lot)

\* C15: every lot a move creates in a destination queue has the weight of
\* the lot of the source queue its inventory was sold from.
C15_MoveKeepsWeight ==
    MoveOk =>
        \A i \in 1..Len(tx.events) :
            ~Disposed(tx.events[i]) =>
                \E j \in 1..Len(tx.events) :
                    /\ Disposed(tx.events[j])
                    /\ tx.events[j].lot.date = tx.events[i].lot.date
                    /\ tx.events[j].lot.weight = tx.events[i].lot.weight

\* what the run does: the new lot has the weight of the temporary lot, which
\* NewLot numbered after every lot of the source queue
C15_Observed ==
    MoveOk =>
        \A i, j \in 1..Len(tx.events) :
            (~Disposed(tx.events[i]) /\ Disposed(tx.events[j]))
                => tx.events[i].lot.weight > tx.events[j].lot.weight

SameLot(a, b) == a.date = b.date /\ a.price = b.price

\* C16: every lot a move creates in a destination queue has the unit price
\* of a lot the move sold from, the basis reported and stored for it is
\* that price times the inventory it received, and no more inventory
\* arrives at a price than left the lots of that price.
C16_MoveKeepsPrice ==
    MoveOk =>
        \A i \in 1..Len(tx.events) :
            ~Disposed(tx.events[i]) =>
                /\ \E j \in 1..Len(tx.events) :
                      Disposed(tx.events[j]) /\ SameLot(tx.events[j].lot, tx.events[i].lot)
                /\ tx.events[i].basis.rat
                     = RatMul(tx.events[i].lot.price, RatNeg(tx.events[i].inventory.rat))
                /\ tx.events[i].lot.startCost = tx.events[i].basis
                /\ tx.events[i].lot.inventory.rat = RatNeg(tx.events[i].inventory.rat)
                /\ ~RatLess(Left(LAMBDA l : SameLot(l, tx.events[i].lot)),
                            Arrived(LAMBDA l : SameLot(l, tx.events[i].lot)))

C16_Witness ==
    /\ MoveOk
    /\ \E i, j \in 1..Len(tx.events) :
          /\ ~Disposed(tx.events[i]) /\ ~Disposed(tx.events[j])
          /\ RatSign(tx.events[i].lot.price) = 1
          /\ RatLess(tx.events[i].lot.price, tx.events[j].lot.price)
          /\ InLedger(tx.events[i].lot) /\ InLedger(tx.events[j].lot)
          /\ RatLess(tx.events[i].lot.inventory.rat, RatInt(3))

\* C17: a transaction none of whose splits has a price or cost writes no
\* short term and no long term gain split, whatever the amounts moved.
C17_MoveNoGain ==
    (TxOk /\ ~tx.isTrade) => (tx.gains.short = NoAmount /\ tx.gains.long = NoAmount)

\* what the run does: a move writes gain splits exactly when the rendered
\* basis of the lots it created differs from that of the lots it sold from
C17_Observed ==
    (TxOk /\ ~tx.isTrade) =>
        ((tx.gains.short = NoAmount /\ tx.gains.long = NoAmount)
            <=> RenderedBasis(Disposed) = RatNeg(RenderedBasis(LAMBDA e : ~Disposed(e))))

(***************************************************************************)
(* Properties of trades.                                                   *)
(***************************************************************************)
TxRead == tx.status # "none"
MoveComment(e) == e.comment[1] = ":MOVE:"
TradeComment(e) == e.comment[1] \in {":BUY:", ":SELL:", ":BUY:DEFER:", ":SELL:DEFER:"}

\* C18: a transaction is processed as a trade if and only if one of its
\* splits with an explicit amount has a price or a cost, and as a move
\* otherwise; its lot events are all of a trade or all of a move.
C18_TradeOrMove ==
    TxRead =>
        IF \E i \in 1..Len(tx.lines) :
              /\ tx.lines[i].delta # NoAmount
              /\ (tx.lines[i].price # NoAmount \/ tx.lines[i].cost # NoAmount)
        THEN tx.isTrade /\ \A i \in 1..Len(tx.events) : TradeComment(tx.events[i])
        ELSE ~tx.isTrade /\ \A i \in 1..Len(tx.events) : MoveComment(tx.events[i])

C18_Witness ==
    /\ TxOk /\ tx.isTrade /\ tx.events # <<>>
    /\ \E i, j \in 1..Len(tx.lines) :
          /\ tx.lines[i].delta # NoAmount /\ tx.lines[i].price # NoAmount
          /\ tx.lines[j].delta # NoAmount
          /\ tx.lines[j].price = NoAmount /\ tx.lines[j].cost = NoAmount

\* the cost of a line: given, or its price times its amount
CostOf(line) ==
    IF line.cost # NoAmount THEN line.cost
    ELSE NewAmount(line.price.asset, RatMul(line.price.rat, line.delta.rat))

\* the lines that buy inventory for base currency
BuysForBase(line) ==
    /\ line.delta # NoAmount /\ line.delta.asset # Base /\ RatSign(line.delta.rat) = 1
    /\ (line.price # NoAmount \/ line.cost # NoAmount)
    /\ CostOf(line).asset = Base

QueueOf(line) == lotQueue[<<line.delta.asset, getAssetQualifier(line.account, pruneFlag)>>]

Count(seq, keep(_)) == Cardinality({i \in 1..Len(seq) : keep(seq[i])})

\* C19: in a trade, every priced split with a positive amount of a non-base
\* asset and a cost in base currency creates exactly one lot, in the queue
\* of its asset and qualifier, with inventory = the amount, cost basis =
\* the cost, date = the transaction's date and price = cost / amount.
C19_BuyCreatesLot ==
    (TxOk /\ tx.isTrade) =>
        /\ Count(tx.events, LAMBDA e : e.comment = <<":BUY:">>) = Count(tx.lines, BuysForBase)
        /\ \A i \in 1..Len(tx.lines) :
              BuysForBase(tx.lines[i]) =>
                 \E j \in 1..Len(tx.events) :
                    /\ tx.events[j].comment = <<":BUY:">>
                    /\ tx.events[j].lot.inventory = tx.lines[i].delta
                    /\ tx.events[j].lot.startCost = CostOf(tx.lines[i])
                    /\ tx.events[j].lot.date = tx.date
                    /\ tx.events[j].lot.price
                         = RatQuo(CostOf(tx.lines[i]).rat, tx.lines[i].delta.rat)
                    /\ \E k \in 1..Len(QueueOf(tx.lines[i])) :
                          QueueOf(tx.lines[i])[k] = tx.events[j].lot
                    /\ \A k \in LedgerKeys :
                          k # <<tx.lines[i].delta.asset,
                                getAssetQualifier(tx.lines[i].account, pruneFlag)>>
                             => \A n \in 1..Len(lotQueue[k]) :
                                   lotQueue[k][n].weight # tx.events[j].lot.weight

C19_Witness ==
    /\ TxOk /\ tx.payee = "Bought ABC" /\ pruneFlag = 3
    /\ Len(lotQueue[<<AssetC, Crypto>>]) = 1
    /\ lotQueue[<<AssetC, Crypto>>][1].inventory = Amt(100, 1, AssetC)
    /\ lotQueue[<<AssetC, Crypto>>][1].startCost = Amt(2, 1, Base)
    /\ lotQueue[<<AssetC, Crypto>>][1].price = Rat(1, 50)
    /\ lotQueue[<<AssetC, Crypto>>][1].date = 20160101

\* the lines that buy inventory at a cost in another non-base asset
Barters(line) ==
    /\ line.delta # NoAmount /\ line.delta.asset # Base /\ RatSign(line.delta.rat) = 1
    /\ (line.price # NoAmount \/ line.cost # NoAmount)
    /\ CostOf(line).asset # Base

DeferredSold(e) == e.comment = <<":SELL:DEFER:">>
DeferredBought(e) == e.comment = <<":BUY:DEFER:">>

SumOfEvents(keep(_), amount(_)) ==
    SumRat([i \in 1..Len(tx.events) |->
               IF keep(tx.events[i]) THEN amount(tx.events[i]) ELSE RatZero])

\* C20: when the cost of a buy is in a non-base asset, that amount of the
\* cost asset is sold from its queue, and the basis stored in the new lot
\* is the sum of the rendered basis of the lots consumed; the basis
\* reported for the new lot is the basis stored in it.
C20_DeferredBasis ==
    (TxOk /\ tx.isTrade /\ Count(tx.lines, Barters) = 1) =>
        /\ Count(tx.events, DeferredBought) = 1
        /\ \A i \in 1..Len(tx.lines) :
              Barters(tx.lines[i]) =>
                 /\ SumOfEvents(DeferredSold, LAMBDA e : e.inventory.rat)
                      = CostOf(tx.lines[i]).rat
                 /\ \A j \in 1..Len(tx.events) :
                       DeferredSold(tx.events[j])
                          => tx.events[j].inventory.asset = CostOf(tx.lines[i]).asset
        /\ \A j \in 1..Len(tx.events) :
              DeferredBought(tx.events[j]) =>
                 /\ tx.events[j].lot.startCost.rat
                      = RatNeg(SumOfEvents(DeferredSold, LAMBDA e : FloatString(e.basis)))
                 /\ tx.events[j].lot.startCost.asset = Base
                 /\ tx.events[j].basis = tx.events[j].lot.startCost
                 /\ FloatString(tx.events[j].basis) = tx.events[j].lot.startCost.rat
                 /\ InLedger(tx.events[j].lot)

C20_Witness ==
    /\ TxOk /\ tx.isTrade /\ Count(tx.lines, Barters) = 1
    /\ Count(tx.events, DeferredSold) = 2
    /\ \E j \in 1..Len(tx.events) :
          /\ DeferredBought(tx.events[j])
          /\ tx.events[j].lot.startCost.rat
               # RatNeg(SumOfEvents(DeferredSold, LAMBDA e : e.basis.rat))

LatestConsumed ==
    CHOOSE d \in {tx.events[i].lot.date : i \in {k \in 1..Len(tx.events) : DeferredSold(tx.events[k])}} :
        \A i \in 1..Len(tx.events) : DeferredSold(tx.events[i]) => tx.events[i].lot.date <= d

LastConsumed ==
    tx.events[CHOOSE i \in 1..Len(tx.events) :
                 /\ DeferredSold(tx.events[i])
                 /\ \A j \in (i + 1)..Len(tx.events) : ~DeferredSold(tx.events[j])].lot.date

\* C21: the date of a lot created by a deferred-basis trade, by which its
\* later disposals are classified, is the latest date among the lots
\* consumed to fund it, under FIFO and under LIFO.
C21_DeferredDate ==
    (TxOk /\ tx.isTrade /\ Count(tx.lines, Barters) = 1) =>
        \A j \in 1..Len(tx.events) :
            DeferredBought(tx.events[j]) => tx.events[j].lot.date = LatestConsumed

\* what the run does: the lot is dated with the transaction; the date of the
\* lot consumed last appears in its name only, and under LIFO that is the
\* earliest of the consumed lots
C21_Observed ==
    (TxOk /\ tx.isTrade /\ Count(tx.lines, Barters) = 1) =>
        \A j \in 1..Len(tx.events) :
            DeferredBought(tx.events[j]) =>
                /\ tx.events[j].lot.date = tx.date
                /\ tx.events[j].lot.name[3] = LastConsumed
                /\ orderFlag = FIFO => LastConsumed = LatestConsumed

BaseSplit(f) == f.split.delta.asset = Base

\* C22: the base currency has no lots: no queue of the base asset holds a
\* lot, and no lot event of a transaction is in the base asset.
C22_NoBaseLots ==
    /\ \A q \in Qualifiers : lotQueue[<<Base, q>>] = <<>>
    /\ TxRead => \A i \in 1..Len(tx.events) :
                    /\ tx.events[i].inventory.asset # Base
                    /\ tx.events[i].lot.inventory.asset # Base

C22_Witness ==
    /\ TxOk /\ tx.isTrade
    /\ Count(tx.splits, BaseSplit) > 0
    /\ tx.events # <<>>
    /\ \E k \in LedgerKeys : lotQueue[k] # <<>>

SplitsOf(filed) == [i \in 1..Len(filed) |-> filed[i].split]
Inferred(t) == t.splits[Len(t.splits)].split
Balanced(t, a) == RatSign(TallyOf(SplitsOf(t.splits), a)) = 0

\* C23: when a transaction has one split without an amount, that split takes
\* the negated tally of the other splits, and after that the tallies of the
\* transaction sum to zero for every asset.
C23_InferredBalance ==
    (TxRead /\ NoDelta(tx.lines) # 0) => \A a \in Assets : Balanced(tx, a)

\* what the run does: the split takes the negated tally of one asset, and
\* every other asset with a tally keeps it; with no tally it stays empty
C23_Observed ==
    (TxRead /\ NoDelta(tx.lines) # 0) =>
        IF NonZeroTallies(tx.lines) = {}
        THEN Len(tx.splits) = Len(tx.lines) - 1
        ELSE /\ Len(tx.splits) = Len(tx.lines)
             /\ Inferred(tx).account = tx.lines[NoDelta(tx.lines)].account
             /\ Inferred(tx).delta.asset \in NonZeroTallies(tx.lines)
             /\ Inferred(tx).delta.rat
                    = RatNeg(TallyOf(tx.lines, Inferred(tx).delta.asset))
             /\ \A a \in Assets :
                    Balanced(tx, a) <=>
                        (a = Inferred(tx).delta.asset \/ a \notin NonZeroTallies(tx.lines))

Failing == tx.status \in {"error", "panic"}

\* C24: transactions are processed one at a time, and the run ends at the
\* first one that fails: the transactions before it have been written with
\* their lot postings, and after it nothing is read, written or changed.
C24_Sequential ==
    /\ [](TxRead =>
            /\ Len(written) = txCount - (IF tx.status = "panic" THEN 1 ELSE 0)
            /\ TxOk => written[txCount] = Block(tx, LotPostings(tx))
            /\ tx.status = "error" => written[txCount] = Block(tx, 0))
    /\ [][/\ ~Failing
          /\ txCount' = txCount + 1
          /\ SubSeq(written', 1, Len(written)) = written]_vars

C24_Witness ==
    /\ Failing /\ txCount = 3
    /\ Len(written) >= 2
    /\ written[1].postings > 0 /\ written[2].postings > 0
    /\ \E k \in LedgerKeys : lotQueue[k] # <<>>

\* the lot events and the ledger a transaction leaves, for one iteration order
ResultOf(st) == [events |-> st.events, lotQueue |-> st.lotQueue, err |-> st.err]

ResultsFiled(e, filed) ==
    {ResultOf(Consumed(orderFlag, lotQueue, weight, e, filed, o[1], o[2])) :
        o \in {p \in MapOrders(FiledKeys(filed)) \X MapOrders(FiledKeys(filed)) :
                  isTrade(e.lines) => p[1] = p[2]}}

Results(e) ==
    UNION {ResultsFiled(e, produceSplits(e.lines, pruneFlag, pick)) : pick \in Picks(e.lines)}

CanRead(e) == ~halted /\ txCount < MaxTx /\ e.date >= txDate

\* C25: for a fixed input and configuration the lot events and the ledger
\* state a transaction leaves do not depend on the order in which the maps
\* of the transaction are iterated.
C25_Deterministic ==
    \A e \in Entries : CanRead(e) => Cardinality(Results(e)) = 1

PriceGiven(s) == HasDelta(s) /\ s.price # NoAmount
CostGiven(s) == HasDelta(s) /\ s.cost # NoAmount
Sells(s) == HasDelta(s) /\ Sign(s.delta) = -1

\* C26 as stated: Cost() is the unit price times the absolute value of the
\* delta, and Price() is the total cost divided by the absolute value of the
\* delta.
C26_AbsoluteDelta ==
    TxRead => \A i \in 1..Len(tx.lines) :
        /\ PriceGiven(tx.lines[i]) =>
              SplitCost(tx.lines[i]).rat
                  = RatMul(tx.lines[i].price.rat, RatAbs(tx.lines[i].delta.rat))
        /\ CostGiven(tx.lines[i]) =>
              SplitPrice(tx.lines[i]).rat
                  = RatQuo(tx.lines[i].cost.rat, RatAbs(tx.lines[i].delta.rat))

\* C26: Cost() is the unit price times the signed delta and Price() is the
\* total cost divided by the signed delta, both in the asset of the given
\* one: for a positive price or cost and a negative delta the derived one is
\* negative.
C26_SignedDelta ==
    TxRead => \A i \in 1..Len(tx.lines) :
        /\ PriceGiven(tx.lines[i]) =>
              /\ SplitCost(tx.lines[i]).rat
                     = RatMul(tx.lines[i].price.rat, tx.lines[i].delta.rat)
              /\ SplitCost(tx.lines[i]).asset = tx.lines[i].price.asset
              /\ (Sells(tx.lines[i]) /\ Sign(tx.lines[i].price) = 1) =>
                     Sign(SplitCost(tx.lines[i])) = -1
        /\ CostGiven(tx.lines[i]) =>
              /\ SplitPrice(tx.lines[i]).rat
                     = RatQuo(tx.lines[i].cost.rat, tx.lines[i].delta.rat)
              /\ SplitPrice(tx.lines[i]).asset = tx.lines[i].cost.asset
              /\ (Sells(tx.lines[i]) /\ Sign(tx.lines[i].cost) = 1) =>
                     Sign(SplitPrice(tx.lines[i])) = -1

C26_Witness ==
    /\ TxRead
    /\ \E i \in 1..Len(tx.lines) : PriceGiven(tx.lines[i]) /\ Sells(tx.lines[i])
    /\ \E i \in 1..Len(tx.lines) : CostGiven(tx.lines[i]) /\ Sells(tx.lines[i])
    /\ \E i \in 1..Len(tx.splits) : ~Priced(tx.splits[i].split)

ParsedOk == parsed.op # "none" /\ parsed.err = NULL
Places(dp, a) == IF dp[a] # 0 THEN dp[a] ELSE DefaultPrecision

\* C27: the precision of an asset is the larger of 6 and the most decimals
\* seen in any amount of that asset parsed so far; it never decreases, and
\* parsing an amount of one asset leaves the precision of the others alone.
C27_Precision ==
    /\ [](\A a \in AllAssets : precision(a) = Larger(DefaultPrecision, observed[a]))
    /\ [][\A a \in AllAssets :
            /\ Places(decimalPlaces', a) >= Places(decimalPlaces, a)
            /\ (parsed'.err # NULL \/ a # parsed'.amount.asset) =>
                   Places(decimalPlaces', a) = Places(decimalPlaces, a)]_vars

\* parsing 7 decimals after 8 were seen, the other asset having seen 1
C27_Witness ==
    /\ parsed.op = "parse" /\ parsed.err = NULL
    /\ parsed.str = <<Num(FALSE, 0, <<0, 0, 0, 0, 0, 0, 1>>), Word(Base)>>
    /\ observed[Base] = 8 /\ precision(Base) = 8
    /\ observed[AssetC] = 1 /\ precision(AssetC) = 6
    /\ precision(AssetUnknown) = 7

\* r is x rounded to p decimals: a multiple of 10^-p at most half of 10^-p
\* away from x
IsRounded(r, x, p) ==
    /\ Pow10(p) % r.d = 0
    /\ 2 * Abs(r.n * (Pow10(p) \div r.d) * x.d - x.n * Pow10(p)) <= x.d

RoundTripOk ==
    /\ parsed.err = NULL
    /\ parsed.amount.asset = parsed.a.asset
    /\ IsRounded(parsed.amount.rat, parsed.a.rat, Places(parsed.before, parsed.a.asset))
    /\ decimalPlaces = parsed.before

\* C28: for any amount, parsing its String() gives an amount of the same
\* asset whose value is the amount's value rounded to the precision of the
\* asset, and leaves that precision as it was.
C28_RoundTrip == parsed.op = "roundtrip" => RoundTripOk

\* what the run does: the round trip holds for every asset code but the
\* empty one, whose text has no second part and is not parsed
C28_Observed ==
    parsed.op = "roundtrip" =>
        IF parsed.a.asset = AssetUnknown
        THEN parsed.err = "expected amount and asset name" /\ decimalPlaces = parsed.before
        ELSE RoundTripOk

PayeeCalled == scanPhase \in {"scan", "panic"} /\ scanLines # <<>>
Indented(l) == l.indent

\* line i (from 1) is a payee line: it starts with a date, only indented
\* lines follow, and one of them is not empty before its comment
IsPayeeLine(lines, i) ==
    /\ ~lines[i].indent /\ lines[i].body = "date"
    /\ \A j \in (i + 1)..Len(lines) : lines[j].indent
    /\ \E j \in (i + 1)..Len(lines) : lines[j].body # ""

PayeeReported ==
    /\ ~scanPayee.panic
    /\ IF \E i \in 1..Len(scanLines) : IsPayeeLine(scanLines, i)
       THEN IsPayeeLine(scanLines, scanPayee.index + 1)
       ELSE scanPayee.index = PayeeNotFound

\* C29: for every block the scanner produces, Payee() reports the index of
\* the payee line or PayeeNotFound and never fails, also for a block of
\* indented lines only.
C29_PayeeTotal == PayeeCalled => PayeeReported

\* what the run does: Payee() fails with a nil pointer dereference exactly
\* for the blocks of indented lines only, and reports as claimed otherwise
C29_Observed ==
    PayeeCalled =>
        IF Count(scanLines, Indented) = Len(scanLines)
        THEN scanPayee.panic /\ scanPhase = "panic"
        ELSE PayeeReported

PriceMissing == baseLast.block.kind = "tx" /\ baseLast.errs # <<>>

Reported ==
    /\ basePhase # "panic"
    /\ baseOut # <<>>
    /\ baseOut[Len(baseOut)].block = baseLast.block
    /\ Len(baseOut[Len(baseOut)].lines) = Len(baseLast.block.lines)
    /\ baseOut[Len(baseOut)].fixme = baseLast.errs
    /\ baseStatus # 0

\* C30: in the base operation a transaction with a missing price does not
\* end the run: its lines are written, a FIXME line for each missing price
\* follows them, and the exit status is not zero.
C30_MissingPrice == PriceMissing => Reported

\* what the run does: with a missing price and another cost of the same
\* transaction converted, the second pass panics and nothing is written
C30_Observed ==
    PriceMissing =>
        IF baseLast.conversion # {}
              /\ \E i \in 1..Len(baseLast.block.lines) :
                    Panics(baseLast.conversion, baseLast.block.lines[i])
        THEN /\ basePhase = "panic"
             /\ baseOut # <<>> => baseOut[Len(baseOut)].block # baseLast.block
        ELSE Reported

\* a split whose cost is in another asset than the base currency, with a
\* price of that asset on the day of the transaction in the price history
CostObserved(h, date, s) ==
    /\ HasDelta(s) /\ Priced(s)
    /\ SplitCost(s).asset # Base
    /\ h[historyKey(date, SplitCost(s).asset)].ok

\* the written line carries a total cost in base currency of price x cost
RewrittenInBase(h, date, w) ==
    /\ w.basis.asset = Base
    /\ w.basis.rat = RatAbs(RatMul(h[historyKey(date, SplitCost(w.split).asset)].rat,
                                   SplitCost(w.split).rat))

\* C31: in the base operation, once the file has been read, every split of a
\* transaction whose cost is in a non-base asset with a price observation of
\* the same day anywhere in the file has been written with a total cost in
\* base currency of price x cost.
C31_AnyPosition ==
    basePhase = "exited" =>
        \A i \in 1..Len(baseOut) :
            baseOut[i].block.kind = "tx" =>
                \A j \in 1..Len(baseOut[i].block.lines) :
                    CostObserved(priceHistory, baseOut[i].block.date,
                                 baseOut[i].block.lines[j])
                        => RewrittenInBase(priceHistory, baseOut[i].block.date,
                                           baseOut[i].lines[j])

\* what the run does: the price history is collected in the same loop that
\* rewrites the transactions, so a split is rewritten from the prices read
\* before its transaction (and only when the second pass does not panic)
C31_Observed ==
    (baseLast.block.kind = "tx" /\ basePhase # "panic") =>
        /\ baseOut[Len(baseOut)].block = baseLast.block
        /\ \A j \in 1..Len(baseLast.block.lines) :
              CostObserved(priceHistory, baseLast.block.date, baseLast.block.lines[j])
                  => RewrittenInBase(priceHistory, baseLast.block.date,
                                     baseOut[Len(baseOut)].lines[j])

(***************************************************************************)
(* Properties of the queues of the ledger state.                           *)
(***************************************************************************)
\* the lots of a queue are in strict (date, weight) order towards the tail:
\* descending under FIFO, ascending under LIFO
StrictlySorted(order, lots) ==
    \A i, j \in 1..Len(lots) :
        i < j => IF order = FIFO THEN Before(lots[j], lots[i])
                 ELSE Before(lots[i], lots[j])

\* the lot the policy selects is the last of the slice, where Sell pops
SelectedAtTail(order, lots) ==
    \A i \in 1..(Len(lots) - 1) :
        IF order = FIFO THEN Before(lots[Len(lots)], lots[i])
        ELSE Before(lots[i], lots[Len(lots)])

NoTwinLots(lots) ==
    \A i, j \in 1..Len(lots) :
        i # j => <<lots[i].date, lots[i].weight>> # <<lots[j].date, lots[j].weight>>

InOrderOfPolicy(lots) ==
    /\ StrictlySorted(orderFlag, lots)
    /\ SelectedAtTail(orderFlag, lots)
    /\ NoTwinLots(lots)

\* C32: every queue (the single queue and every queue of the ledger state,
\* with the lots moves have put there) is strictly sorted by (date, weight)
\* in the direction of its policy, the lot the policy selects is at the
\* tail, and no two lots of one queue have the same (date, weight).
C32_QueueSorted ==
    /\ InOrderOfPolicy(queue)
    /\ \A k \in LedgerKeys : InOrderOfPolicy(lotQueue[k])

\* a move has put two lots of different dates in one queue
C32_Witness ==
    /\ TxOk /\ ~tx.isTrade
    /\ \E k \in LedgerKeys :
          \E m, n \in 1..Len(lotQueue[k]) :
              /\ lotQueue[k][m].date # lotQueue[k][n].date
              /\ \E i, j \in 1..Len(tx.events) :
                    /\ ~Disposed(tx.events[i]) /\ ~Disposed(tx.events[j])
                    /\ tx.events[i].lot.weight = lotQueue[k][m].weight
                    /\ tx.events[j].lot.weight = lotQueue[k][n].weight

\* C33: LotQueue.Sell(delta), delta < 0, on a non-empty queue ends after
\* popping at least one and at most all of the lots the queue held; it
\* succeeds, with actual amounts that sum to |delta|, if and only if the
\* inventory of the queue was at least |delta|, and otherwise it returns
\* the error of a queue that ran empty.
C33_SellTerminates ==
    LastSell =>
        /\ Len(qLast.res.lot) \in 1..Len(qLast.pre)
        /\ Len(qLast.res.inventory) = Len(qLast.res.lot)
        /\ qLast.res.err <=> RatLess(SumRat(Inventories(qLast.pre)), Sold)
        /\ ~qLast.res.err => SumRat(Rats(qLast.res.inventory)) = Sold
        /\ qLast.res.err => queue = <<>>

\* a Sell of exactly the inventory of a queue of two lots pops both
C33_Witness ==
    /\ LastSell /\ ~qLast.res.err
    /\ Len(qLast.pre) = 2 /\ Len(qLast.res.lot) = 2
    /\ SumRat(Inventories(qLast.pre)) = Sold
    /\ queue = <<>>

\* the qualifiers of the run and the total inventory of a queue
RunQualifiers == {getAssetQualifier(a, pruneFlag) : a \in Accounts}
Holds(lots, n) == ~RatLess(SumRat(Inventories(lots)), RatInt(n))
OthersAsBefore(lq, key) == [lq EXCEPT ![key] = lotQueue[key]] = lotQueue

\* a sell on (asset, qual) of the ledger state: every other queue is as
\* before, and it succeeds exactly when this queue alone holds the amount
SellsAlone(asset, qual, n) ==
    \E r \in {LedgerSell(lotQueue, qual, NewAmount(asset, RatInt(-n)))} :
        /\ OthersAsBefore(r.lotQueue, <<asset, qual>>)
        /\ r.err = NULL <=> Holds(lotQueue[<<asset, qual>>], n)

\* a buy on (asset, qual) of the ledger state
BuysAlone(asset, qual) ==
    OthersAsBefore(LedgerBuy(orderFlag, lotQueue,
                             NewLot("temp", txDate, NewAmount(asset, RatInt(1)),
                                    NewAmount(Base, RatInt(1)), weight),
                             qual),
                   <<asset, qual>>)

\* the queues a transaction may touch: those of the qualifiers of its
\* splits, for the assets of their amounts and costs
SplitKeys(f) ==
    {<<f.split.delta.asset, f.qual>>}
        \cup (IF Priced(f.split) THEN {<<SplitCost(f.split).asset, f.qual>>} ELSE {})
TxKeys(t) == UNION {SplitKeys(t.splits[i]) : i \in 1..Len(t.splits)}

\* C34: qualifier pools are independent: a buy or a sell on the queue of
\* (asset, qualifier) leaves every queue of another asset or another
\* qualifier as it was, a sell succeeds exactly when the inventory of its
\* own queue covers it, whatever other qualifiers of the asset hold, and a
\* transaction changes no queue but those of its splits' qualifiers.
C34_Independent ==
    /\ [](\A asset \in Assets \ {Base}, qual \in RunQualifiers :
              /\ BuysAlone(asset, qual)
              /\ \A n \in 1..(2 * MaxQty) : SellsAlone(asset, qual, n))
    /\ [][\A k \in LedgerKeys : k \notin TxKeys(tx') => lotQueue'[k] = lotQueue[k]]_vars

\* a sell failed for insufficient inventory in a queue that holds lots,
\* while another qualifier of the same asset holds the amount
C34_Witness ==
    /\ tx.status = "error" /\ tx.err = "no remaining inventory"
    /\ \E i \in 1..Len(tx.splits) :
          /\ Sign(tx.splits[i].split.delta) = -1
          /\ lotQueue[<<tx.splits[i].split.delta.asset, tx.splits[i].qual>>] # <<>>
          /\ RatLess(SumRat(Inventories(lotQueue[<<tx.splits[i].split.delta.asset,
                                                   tx.splits[i].qual>>])),
                     RatNeg(tx.splits[i].split.delta.rat))
          /\ \E q \in RunQualifiers :
                /\ q # tx.splits[i].qual
                /\ ~RatLess(SumRat(Inventories(lotQueue[<<tx.splits[i].split.delta.asset, q>>])),
                            RatNeg(tx.splits[i].split.delta.rat))

\* the lots of the queues of the ledger state and their names
LiveLots == UNION {{<<k, i>> : i \in 1..Len(lotQueue[k])} : k \in LedgerKeys}
LiveNames == {lotQueue[p[1]][p[2]].name : p \in LiveLots}

\* the events of a transaction that report a lot it created
Created(e) ==
    \/ e.comment[1] \in {":BUY:", ":BUY:DEFER:"}
    \/ e.comment[1] = ":MOVE:" /\ e.comment[2] = "to"
CreatedBy(t) ==
    IF t.status = "none" THEN {}
    ELSE {i \in 1..Len(t.events) : Created(t.events[i])}

LiveAs(l) == {p \in LiveLots : lotQueue[p[1]][p[2]].name = l.name}

\* C36: every lot of a queue of the ledger state has an inventory above
\* zero; a lot a sell has exhausted is in no queue, and a lot a sell has
\* consumed in part is in its queue with what remains of it, at the tail
\* when the transaction has put no new lot in a queue.
C36_PositiveInventory ==
    /\ \A p \in LiveLots : Sign(lotQueue[p[1]][p[2]].inventory) = 1
    /\ TxOk =>
          \A i \in 1..Len(tx.events) :
              Disposed(tx.events[i]) =>
                  IF Sign(tx.events[i].lot.inventory) = 0
                  THEN LiveAs(tx.events[i].lot) = {}
                  ELSE \E p \in LiveAs(tx.events[i].lot) :
                          /\ lotQueue[p[1]][p[2]].inventory = tx.events[i].lot.inventory
                          /\ CreatedBy(tx) = {} => p[2] = Len(lotQueue[p[1]])

\* one sell has exhausted a lot, which is gone, and consumed another in
\* part, which is the tail of its queue
C36_Witness ==
    /\ TxOk
    /\ \E i, j \in 1..Len(tx.events) :
          /\ Disposed(tx.events[i]) /\ Sign(tx.events[i].lot.inventory) = 0
          /\ Disposed(tx.events[j]) /\ Sign(tx.events[j].lot.inventory) = 1
          /\ \E p \in LiveAs(tx.events[j].lot) : p[2] = Len(lotQueue[p[1]])

SellFailure(err) ==
    err \in {"attempt to sell base asset", "attempt to sell from empty lot",
             "no remaining inventory"}

\* a failed sell on (asset, qual) of the ledger state leaves every queue,
\* its own included, with the lots, inventories and order it had
FailsClean(asset, qual, n) ==
    \E r \in {LedgerSell(lotQueue, qual, NewAmount(asset, RatInt(-n)))} :
        /\ r.err # NULL => SellFailure(r.err) /\ r.lotQueue = lotQueue
        /\ (asset = Base \/ ~Holds(lotQueue[<<asset, qual>>], n)) => r.err # NULL

\* C37: when sell(qualifier, delta) fails (base asset, empty queue or not
\* enough inventory) the queue stored for (asset, qualifier) has the lots,
\* the inventories and the order it had before the call; a transaction whose
\* first sell fails leaves the ledger state as it found it.
C37_FailedSellKeepsQueue ==
    /\ [](\A asset \in Assets, qual \in RunQualifiers, n \in 1..(2 * MaxQty) :
              FailsClean(asset, qual, n))
    /\ [][(SellFailure(tx'.err) /\ tx'.events = <<>>) => lotQueue' = lotQueue]_vars

\* a transaction has failed on its first sell, from a queue that holds lots
\* but not enough of them
C37_Witness ==
    /\ tx.status = "error" /\ tx.err = "no remaining inventory" /\ tx.events = <<>>
    /\ \E i \in 1..Len(tx.splits) :
          /\ Sign(tx.splits[i].split.delta) = -1
          /\ lotQueue[<<tx.splits[i].split.delta.asset, tx.splits[i].qual>>] # <<>>
          /\ RatLess(SumRat(Inventories(lotQueue[<<tx.splits[i].split.delta.asset,
                                                   tx.splits[i].qual>>])),
                     RatNeg(tx.splits[i].split.delta.rat))

\* the lot of the queue with a weight, if any
InQueue(w) == {i \in 1..Len(queue) : queue[i].weight = w}

\* C38: for every lot, the basis its Sells have returned (as absolute
\* amounts) plus the unit price times the inventory that remains is the
\* cost basis the lot was created with, exactly; a lot consumed whole has
\* released exactly its cost basis.
C38_BasisConserved ==
    /\ \A l \in LotsSeen :
          /\ RatAdd(qReleased[l.weight].released, RatMul(l.price, l.inventory.rat))
                = qReleased[l.weight].cost
          /\ l.startCost.rat = qReleased[l.weight].cost
    /\ \A w \in DOMAIN qReleased :
          InQueue(w) = {} => qReleased[w].released = qReleased[w].cost

\* a lot of two units with a cost of one has been sold from twice: it is
\* gone, and another lot sold from in part remains
C38_Witness ==
    /\ LastSell
    /\ \E w \in DOMAIN qReleased :
          /\ InQueue(w) = {}
          /\ qReleased[w].cost = RatInt(1)
          /\ qCreated[w] = RatInt(2)
          /\ \E j \in 1..Len(qLast.res.lot) :
                qLast.res.lot[j].weight = w /\ qLast.res.basis[j].rat = Rat(-1, 2)
    /\ \E i \in 1..Len(queue) :
          RatSign(qReleased[queue[i].weight].released) = 1

\* a trade that buys at a cost in another asset than the base currency and
\* has no split in base currency
BarterOnly ==
    /\ TxOk /\ tx.isTrade
    /\ Count(tx.lines, Barters) >= 1
    /\ \A i \in 1..Len(tx.splits) : tx.splits[i].split.delta.asset # Base

\* C39: a deferred-basis trade without a split in base currency realizes no
\* gain: the rendered basis taken from the lots consumed and the basis of
\* the new lot cancel, the total gain is zero and no short term or long
\* term gain split is written.
C39_BarterNoGain ==
    BarterOnly =>
        /\ RatAdd(SumOfEvents(DeferredSold, LAMBDA e : FloatString(e.basis)),
                  SumOfEvents(DeferredBought, LAMBDA e : FloatString(e.basis))) = RatZero
        /\ tx.tally.totalGain = RatZero
        /\ tx.gains.short = NoAmount /\ tx.gains.long = NoAmount
        /\ written[Len(written)] = Block(tx, 2 * Len(tx.events))

\* a barter has consumed two lots, one of them with a basis that is rounded
C39_Witness ==
    /\ BarterOnly
    /\ Count(tx.events, DeferredSold) = 2
    /\ Count(tx.events, DeferredBought) = 1
    /\ \E i \in 1..Len(tx.events) :
          /\ DeferredSold(tx.events[i])
          /\ FloatString(tx.events[i].basis) # tx.events[i].basis.rat
    /\ tx.gains.sale

\* the consumed transaction reports disposals of two different assets
MixedDisposals(t) ==
    /\ t.status # "none" /\ t.err = NULL
    /\ \E i, j \in 1..Len(t.events) :
          /\ Disposed(t.events[i]) /\ Disposed(t.events[j])
          /\ t.events[i].inventory.asset # t.events[j].inventory.asset

\* C40: when the disposals of a transaction are of two different assets the
\* apportionment of gains panics ("trade with mixed inventory"): the run
\* ends, nothing of the transaction is written, and the queues have been
\* changed by its sells and buys.
C40_MixedInventory ==
    /\ [](MixedDisposals(tx) => tx.status = "panic" /\ tx.tally.panic /\ halted)
    /\ [][MixedDisposals(tx') => written' = written /\ lotQueue' # lotQueue]_vars

\* a trade that sold lots of two assets has ended the run after the
\* transactions before it were written
C40_Witness ==
    /\ MixedDisposals(tx) /\ tx.isTrade /\ tx.status = "panic"
    /\ written # <<>> /\ Len(written) = txCount - 1
    /\ \A i \in 1..Len(tx.events) : Disposed(tx.events[i])

\* a move of two assets ends the run in the same way
C40_MixedMove == MixedDisposals(tx) /\ ~tx.isTrade /\ tx.status = "panic"
====
